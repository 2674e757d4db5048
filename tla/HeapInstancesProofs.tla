------------------------ MODULE HeapInstancesProofs -------------------------
(***************************************************************************)
(* The registration of the active heap, for any number of heap objects and *)
(* storages.                                                               *)
(***************************************************************************)
EXTENDS HeapInstances, TLAPS

NullIsNone == Null \notin Instances /\ Null \notin Storages

IInv == TypeOK /\ Registered /\ CountsAgree /\ HandlesResolve

LEMMA InitHolds == NullIsNone /\ Init => IInv
BY DEF NullIsNone, Init, IInv, TypeOK, Registered, CountsAgree, HandlesResolve

LEMMA CreateRefusedHolds ==
    ASSUME NullIsNone, IInv, NEW i \in Instances, NEW s \in Storages \cup {Null},
           CreateRefused(i, s)
    PROVE  IInv'
<1>1. ~ valid[i] /\ active # i
  BY DEF CreateRefused, IInv, Registered, TypeOK, NullIsNone
<1> QED
  BY <1>1 DEF CreateRefused, IInv, TypeOK, Registered, CountsAgree, HandlesResolve,
              NullIsNone

\* With no active instance nothing is stored anywhere.
LEMMA CreateHolds ==
    ASSUME NullIsNone, IInv, NEW i \in Instances, NEW s \in Storages \cup {Null},
           Create(i, s)
    PROVE  IInv' /\ UNCHANGED stored
<1>1. /\ active = Null /\ s \in Storages
      /\ \A j \in Instances : ~ valid[j] /\ live[j] = 0
      /\ \A t \in Storages : stored[t] = 0
  BY DEF Create, IInv, Registered, CountsAgree, HandlesResolve, NullIsNone
<1>2. UNCHANGED stored
  BY <1>1 DEF Create, IInv, TypeOK
<1>3. TypeOK'
  BY <1>1 DEF Create, IInv, TypeOK
<1>4. Registered'
  BY <1>1 DEF Create, IInv, TypeOK, Registered, NullIsNone
<1>5. CountsAgree'
  BY <1>1 DEF Create, IInv, TypeOK, CountsAgree
<1>6. HandlesResolve'
  BY <1>1, <1>2 DEF HandlesResolve
<1> QED
  BY <1>2, <1>3, <1>4, <1>5, <1>6 DEF IInv

\* The registration and the count go over together.
LEMMA MoveHolds ==
    ASSUME NullIsNone, IInv, NEW i \in Instances, NEW other \in Instances,
           Move(i, other)
    PROVE  IInv'
<1>1. i # other /\ ~ valid[i] /\ active # i /\ live[i] = 0
  BY DEF Move, IInv, Registered, CountsAgree, NullIsNone
<1>2. TypeOK'
  BY DEF Move, IInv, TypeOK
<1>3. Registered'
  BY <1>1 DEF Move, IInv, TypeOK, Registered, NullIsNone
<1>4. CountsAgree'
  BY <1>1 DEF Move, IInv, TypeOK, CountsAgree, NullIsNone
<1>5. HandlesResolve'
  BY <1>1 DEF Move, IInv, TypeOK, HandlesResolve, NullIsNone
<1> QED
  BY <1>2, <1>3, <1>4, <1>5 DEF IInv

\* The active heap ends only when it has no objects, which is when there are none.
LEMMA EndHolds ==
    ASSUME NullIsNone, IInv, NEW i \in Instances, End(i)
    PROVE  IInv'
<1>1. active = i => \A s \in Storages : stored[s] = 0
  BY DEF End, IInv, TypeOK, Registered, CountsAgree, HandlesResolve, NullIsNone
<1>2. TypeOK'
  BY DEF End, IInv, TypeOK
<1>3. Registered'
  BY DEF End, IInv, TypeOK, Registered, NullIsNone
<1>4. CountsAgree'
  BY DEF End, IInv, TypeOK, CountsAgree, NullIsNone
<1>5. HandlesResolve'
  BY <1>1 DEF End, IInv, TypeOK, HandlesResolve, NullIsNone
<1> QED
  BY <1>2, <1>3, <1>4, <1>5 DEF IInv

LEMMA MakeObjectHolds ==
    ASSUME NullIsNone, IInv, NEW i \in Instances, MakeObject(i)
    PROVE  /\ IInv'
           /\ base[i] \in Storages
           /\ stored' = [stored EXCEPT ![base[i]] = @ + 1]
<1>1. active = i /\ base[i] \in Storages
  BY DEF MakeObject, IInv, Registered, NullIsNone
<1> QED
  BY <1>1 DEF MakeObject, IInv, TypeOK, Registered, CountsAgree, HandlesResolve,
              NullIsNone

\* The release runs on the instance whose storage holds the object.
LEMMA ReleaseObjectHolds ==
    ASSUME NullIsNone, IInv, NEW s \in Storages, ReleaseObject(s)
    PROVE  IInv' /\ stored' = [stored EXCEPT ![s] = @ - 1]
<1>1. /\ active \in Instances /\ base[active] = s
      /\ live[active] = stored[s] /\ stored[s] \in Nat /\ stored[s] > 0
  BY DEF ReleaseObject, IInv, TypeOK, CountsAgree, HandlesResolve
<1>2. stored' = [stored EXCEPT ![s] = @ - 1] /\ live' = [live EXCEPT ![active] = @ - 1]
  BY <1>1 DEF ReleaseObject
<1>3. TypeOK'
  BY <1>1, <1>2 DEF ReleaseObject, IInv, TypeOK
<1>4. Registered'
  BY DEF ReleaseObject, IInv, Registered
<1>5. CountsAgree' /\ HandlesResolve'
  BY <1>1, <1>2 DEF ReleaseObject, IInv, TypeOK, CountsAgree, HandlesResolve
<1> QED
  BY <1>2, <1>3, <1>4, <1>5 DEF IInv

LEMMA StutterHolds == IInv /\ UNCHANGED vars => IInv'
BY DEF IInv, TypeOK, Registered, CountsAgree, HandlesResolve, vars

LEMMA StepHolds == NullIsNone /\ IInv /\ [Next]_vars => IInv'
<1> SUFFICES ASSUME NullIsNone, IInv, [Next]_vars PROVE IInv'
  OBVIOUS
<1>1. ASSUME NEW i \in Instances, NEW s \in Storages \cup {Null},
             CreateRefused(i, s) \/ Create(i, s)
      PROVE  IInv'
  BY <1>1, CreateRefusedHolds, CreateHolds
<1>2. ASSUME NEW i \in Instances, NEW other \in Instances, Move(i, other) PROVE IInv'
  BY <1>2, MoveHolds
<1>3. ASSUME NEW i \in Instances, End(i) \/ MakeObject(i) PROVE IInv'
  BY <1>3, EndHolds, MakeObjectHolds
<1>4. ASSUME NEW s \in Storages, ReleaseObject(s) PROVE IInv'
  BY <1>4, ReleaseObjectHolds
<1>5. CASE UNCHANGED vars
  BY <1>5, StutterHolds
<1> QED
  BY <1>1, <1>2, <1>3, <1>4, <1>5 DEF Next

LEMMA Invariance == ASSUME NullIsNone PROVE Spec => []IInv
<1>1. Init => IInv
  BY InitHolds
<1>2. IInv /\ [Next]_vars => IInv'
  BY StepHolds
<1> QED
  BY <1>1, <1>2, PTL DEF Spec

\* Every managed_ptr finds its object through the active instance: as long as
\* an object is left, that is the heap whose storage holds it, through every
\* sequence of constructions, refused constructions, moves and ends.
THEOREM EveryHandleResolves == ASSUME NullIsNone PROVE Spec => []HandlesResolve
<1>1. IInv => HandlesResolve
  BY DEF IInv
<1> QED
  BY <1>1, Invariance, PTL

\* A second heap of the same type never writes its table over a storage that
\* is in use, and every release takes one object from the storage it was in.
THEOREM ObjectsAreKept == ASSUME NullIsNone PROVE Spec => ObjectsKept
<1> DEFINE Kept == \A s \in Storages :
                       stored'[s] # stored[s] =>
                           \/ stored'[s] = stored[s] + 1
                           \/ stored[s] = stored'[s] + 1 /\ ReleaseObject(s)
<1>1. IInv /\ [Next]_vars => [Kept]_vars
  <2> SUFFICES ASSUME IInv, Next PROVE Kept
    BY DEF vars
  <2>1. stored \in [Storages -> Nat]
    BY DEF IInv, TypeOK
  <2>2. ASSUME NEW i \in Instances, NEW s \in Storages \cup {Null},
               CreateRefused(i, s) \/ Create(i, s)
        PROVE  Kept
    BY <2>2, CreateHolds DEF CreateRefused
  <2>3. ASSUME NEW i \in Instances, NEW other \in Instances, Move(i, other) \/ End(i)
        PROVE  Kept
    BY <2>3 DEF Move, End
  <2>4. ASSUME NEW i \in Instances, MakeObject(i) PROVE Kept
    BY <2>1, <2>4, MakeObjectHolds
  <2>5. ASSUME NEW s \in Storages, ReleaseObject(s) PROVE Kept
    <3>1. stored' = [stored EXCEPT ![s] = @ - 1]
      BY <2>5, ReleaseObjectHolds
    <3>2. stored[s] > 0
      BY <2>5 DEF ReleaseObject
    <3> QED
      BY <2>1, <2>5, <3>1, <3>2
  <2> QED
    BY <2>2, <2>3, <2>4, <2>5 DEF Next
<1> QED
  BY <1>1, Invariance, PTL DEF Spec, ObjectsKept
=============================================================================
