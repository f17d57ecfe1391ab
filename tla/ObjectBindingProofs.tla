------------------------ MODULE ObjectBindingProofs -------------------------
(***************************************************************************)
(* Proofs about module ObjectBinding, for any environments, threads and    *)
(* objects.                                                                *)
(***************************************************************************)
EXTENDS ObjectBinding, FiniteSetTheorems, TLAPS

(* Where an actor that is not idle stands with its object. *)
Positions ==
  \A x \in Actors :
    /\ at[x] \in {"up", "down", "last"} => on[x] \in RefCounted
    /\ at[x] = "last" => life[on[x]] = "alive" /\ refs[on[x]] = 0
    /\ at[x] \in {"dying", "freeing", "stuck"} => life[on[x]] = "dying"
    /\ at[x] \in {"binding", "giving"} => /\ x \in Envs
                                         /\ HasObject(x, on[x])
                                         /\ life[on[x]] = "alive"
    /\ at[x] = "giving" /\ on[x] \in RefCounted => <<x, on[x]>> \in owns

(* Who deletes an object, or will when its callbacks were called. *)
Ending(x, o) == on[x] = o /\ at[x] \in {"last", "dying", "freeing", "stuck"}

OneEnds ==
  \A x, y \in Actors, o \in Objects : Ending(x, o) /\ Ending(y, o) => x = y

(* Only an object that is alive is referenced. *)
CountedIsAlive ==
  \A o \in RefCounted : refs[o] # 0 => life[o] = "alive"

(* Entry and binding go together, but for the moment of binding, and the   *)
(* bindings that free_object does not drop when the entry goes.            *)
Together(e, o) ==
  /\ <<e, o>> \in bound => HasObject(e, o) \/ <<e, o>> \in skipped
  /\ HasObject(e, o) => \/ <<e, o>> \in bound
                        \/ at[e] = "binding" /\ on[e] = o

EntryIsBound == \A e \in Envs, o \in Objects : Together(e, o)

DisposedIsEmpty ==
  \A e \in Envs, o \in Objects : state[e] = "disposed" => ~HasObject(e, o)

Shape ==
  /\ Positions /\ OneEnds /\ CountedIsAlive
  /\ EntryIsBound /\ EntriesAlive /\ DisposedIsEmpty

ObjectInv == ObjectTypeOK /\ IsFiniteSet(mail) /\ CountsAgree /\ Shape

-----------------------------------------------------------------------------
(* A sum that is zero. *)
LEMMA SumIsZero ==
  ASSUME NEW a \in Nat, NEW b \in Nat, NEW c \in Nat, NEW d \in Nat,
         0 = a + b + 2 * c + d
  PROVE  a = 0 /\ b = 0 /\ c = 0 /\ d = 0
OBVIOUS

(***************************************************************************)
(* The sets that CountsAgree counts are finite, and an object has as many  *)
(* references as one of them calls for.                                    *)
(***************************************************************************)
LEMMA Counted ==
  ASSUME ObjectInv, NEW o \in RefCounted
  PROVE  /\ IsFiniteSet(OwnersOf(o)) /\ Cardinality(OwnersOf(o)) \in Nat
         /\ IsFiniteSet(HoldersOf(o)) /\ Cardinality(HoldersOf(o)) \in Nat
         /\ IsFiniteSet(LettersOf(o)) /\ Cardinality(LettersOf(o)) \in Nat
         /\ refs[o] = Cardinality(OwnersOf(o)) + Cardinality(HoldersOf(o))
                      + 2 * Cardinality(LettersOf(o)) + lost[o]
         /\ lost[o] \in Nat
         /\ refs[o] = 0 => /\ OwnersOf(o) = {} /\ HoldersOf(o) = {}
                           /\ LettersOf(o) = {} /\ lost[o] = 0
<1>1. IsFiniteSet(Actors)
  BY FS_Union, BindingAssumption DEF Actors
<1>2. IsFiniteSet(OwnersOf(o))
  BY <1>1, FS_Subset DEF OwnersOf
<1>3. IsFiniteSet(HoldersOf(o))
  BY BindingAssumption, FS_Subset DEF HoldersOf
<1>4. IsFiniteSet(LettersOf(o))
  BY FS_Subset DEF LettersOf, ObjectInv
<1>5. /\ Cardinality(OwnersOf(o)) \in Nat /\ Cardinality(HoldersOf(o)) \in Nat
      /\ Cardinality(LettersOf(o)) \in Nat /\ lost[o] \in Nat
  BY <1>2, <1>3, <1>4, FS_CardinalityType DEF ObjectInv, ObjectTypeOK
<1>6. refs[o] = Cardinality(OwnersOf(o)) + Cardinality(HoldersOf(o))
               + 2 * Cardinality(LettersOf(o)) + lost[o]
  BY DEF ObjectInv, CountsAgree
<1>7. ASSUME refs[o] = 0
      PROVE  /\ OwnersOf(o) = {} /\ HoldersOf(o) = {} /\ LettersOf(o) = {}
             /\ lost[o] = 0
  <2>1. /\ Cardinality(OwnersOf(o)) = 0 /\ Cardinality(HoldersOf(o)) = 0
        /\ Cardinality(LettersOf(o)) = 0 /\ lost[o] = 0
    <3>1. 0 = Cardinality(OwnersOf(o)) + Cardinality(HoldersOf(o))
              + 2 * Cardinality(LettersOf(o)) + lost[o]
      BY <1>6, <1>7
    <3> QED BY ONLY <1>5, <3>1, SumIsZero
  <2> QED BY <2>1, <1>2, <1>3, <1>4, FS_EmptySet
<1> QED BY <1>2, <1>3, <1>4, <1>5, <1>6, <1>7

(* Who has a reference, an entry or a message finds the object alive. *)
Referenced(o) == refs[o] \in Nat \ {0} /\ life[o] = "alive"

LEMMA CountMeansAlive ==
  ASSUME ObjectInv, NEW o \in RefCounted, refs[o] # 0
  PROVE  Referenced(o)
BY DEF ObjectInv, ObjectTypeOK, Shape, CountedIsAlive, Referenced

LEMMA OwnerHolds ==
  ASSUME ObjectInv, NEW x \in Actors, NEW o \in RefCounted, <<x, o>> \in owns
  PROVE  Referenced(o)
<1>1. x \in OwnersOf(o)
  BY DEF OwnersOf
<1> QED BY <1>1, Counted, CountMeansAlive

LEMMA EntryHolds ==
  ASSUME ObjectInv, NEW e \in Envs, NEW o \in RefCounted, HasObject(e, o)
  PROVE  Referenced(o)
<1>1. e \in HoldersOf(o)
  BY DEF HoldersOf
<1> QED BY <1>1, Counted, CountMeansAlive

LEMMA LetterHolds ==
  ASSUME ObjectInv, NEW m \in mail, m.obj \in RefCounted
  PROVE  Referenced(m.obj)
<1>1. m \in LettersOf(m.obj)
  BY DEF LettersOf
<1> QED BY <1>1, Counted, CountMeansAlive

(* Nobody is about to delete an object that is referenced, or that is alive *)
(* and not counted.                                                         *)
LEMMA NotEnding ==
  ASSUME ObjectInv, NEW o \in Objects, life[o] = "alive",
         o \in RefCounted => refs[o] # 0, NEW x \in Actors
  PROVE  ~Ending(x, o)
BY DEF Ending, ObjectInv, Shape, Positions

(* The parts of the type invariant, one at a time. *)
ActorTypeOK ==
  /\ at \in [Actors -> Step]
  /\ on \in [Actors -> Objects \cup {NoObject}]
  /\ entered \in [Actors -> Envs \cup {NoObject}]
  /\ \A x \in Actors : at[x] # "idle" => on[x] \in Objects
  /\ \A x \in Actors : at[x] = "freeing" => entered[x] \in Envs

CountTypeOK ==
  /\ life \in [Objects -> {"none", "alive", "dying"}]
  /\ refs \in [RefCounted -> Nat]
  /\ owns \subseteq Actors \X RefCounted
  /\ mail \subseteq Letter
  /\ lost \in [RefCounted -> Nat]

EntryTypeOK ==
  /\ ref \in [Envs -> [Objects -> {"none", "empty", "weak", "strong"}]]
  /\ jsOwned \subseteq Envs \X Objects
  /\ bound \subseteq Envs \X Objects
  /\ pending \subseteq Envs \X RefCounted
  /\ skipped \subseteq Envs \X Objects

EnvTypeOK ==
  /\ calls \in [Envs -> Seq(Call)]
  /\ inside \in [Envs -> BOOLEAN]
  /\ state \in [Envs -> {"live", "disposing", "cleaning", "disposed"}]

LEMMA TypeParts ==
  ObjectTypeOK <=> ActorTypeOK /\ CountTypeOK /\ EntryTypeOK /\ EnvTypeOK
BY DEF ObjectTypeOK, ActorTypeOK, CountTypeOK, EntryTypeOK, EnvTypeOK

LEMMA TypesOf ==
  ASSUME ObjectInv
  PROVE  ActorTypeOK /\ CountTypeOK /\ EntryTypeOK /\ EnvTypeOK
BY TypeParts DEF ObjectInv

LEMMA TypePartsNext ==
  ASSUME ActorTypeOK', CountTypeOK', EntryTypeOK', EnvTypeOK'
  PROVE  ObjectTypeOK'
BY DEF ObjectTypeOK, ActorTypeOK, CountTypeOK, EntryTypeOK, EnvTypeOK

LEMMA Members ==
  /\ Envs \subseteq Actors
  /\ RefCounted \subseteq Objects
  /\ Plain \subseteq Objects
BY DEF Actors, Objects

(* What an actor does next. *)
Moved(x, s, o) ==
  /\ \A y \in Actors \ {x} : at'[y] = at[y] /\ on'[y] = on[y]
  /\ at'[x] = s
  /\ s # "idle" => on'[x] = o

LEMMA Going ==
  ASSUME ActorTypeOK, NEW x \in Actors, NEW o \in Objects \cup {NoObject},
         NEW s \in Step \ {"freeing"}, s # "idle" => o \in Objects,
         Go(x, s, o), entered' = entered
  PROVE  ActorTypeOK' /\ Moved(x, s, o)
BY DEF Go, ActorTypeOK, Moved

LEMMA GoingOn ==
  ASSUME ActorTypeOK, NEW x \in Actors, NEW o \in Objects, Idle(x),
         NEW s \in Step \ {"freeing"}, GoOn(x, s, o), entered' = entered
  PROVE  ActorTypeOK' /\ Moved(x, s, o)
<1>1. CASE s = "idle"
  BY <1>1 DEF GoOn, Idle, ActorTypeOK, Moved
<1>2. CASE s # "idle"
  BY <1>2, Going DEF GoOn
<1> QED BY <1>1, <1>2

LEMMA Resting ==
  ASSUME ActorTypeOK, NEW x \in Actors, Rest(x), entered' = entered
  PROVE  ActorTypeOK' /\ Moved(x, "idle", NoObject)
BY Going DEF Rest, Step

LEMMA Staying ==
  ASSUME ActorTypeOK, UNCHANGED <<at, on, entered>>
  PROVE  ActorTypeOK'
BY DEF ActorTypeOK

LEMMA AfterType ==
  ASSUME NEW n \in Nat
  PROVE  /\ AfterInc(n) \in {"up", "idle"}
         /\ AfterDec(n) \in {"last", "down", "idle"}
         /\ AfterDec(n) = "last" <=> n = 0
BY DEF AfterInc, AfterDec

(* The counts agree still where nothing that is counted changes, and where *)
(* they do for the one object that it changes for.                         *)
Same(o) ==
  /\ refs'[o] = refs[o] /\ OwnersOf(o)' = OwnersOf(o)
  /\ HoldersOf(o)' = HoldersOf(o) /\ LettersOf(o)' = LettersOf(o)
  /\ lost'[o] = lost[o]

LEMMA CountsStay ==
  ASSUME CountsAgree, NEW o,
         \A q \in RefCounted \ {o} : Same(q),
         o \in RefCounted =>
           refs'[o] = Cardinality(OwnersOf(o)') + Cardinality(HoldersOf(o)')
                      + 2 * Cardinality(LettersOf(o)') + lost'[o]
  PROVE  CountsAgree'
<1> SUFFICES ASSUME NEW q \in RefCounted
             PROVE  refs'[q] = Cardinality(OwnersOf(q)')
                               + Cardinality(HoldersOf(q)')
                               + 2 * Cardinality(LettersOf(q)') + lost'[q]
  BY DEF CountsAgree
<1>1. CASE q = o
  BY <1>1
<1>2. CASE q # o
  BY <1>2 DEF CountsAgree, Same
<1> QED BY <1>1, <1>2

LEMMA NothingCounted ==
  ASSUME CountsAgree, \A q \in RefCounted : Same(q)
  PROVE  CountsAgree'
BY DEF CountsAgree, Same

-----------------------------------------------------------------------------
(* The steps, one lemma for each action. *)

(* Entry and binding still go together where no entry comes or goes, save *)
(* one that goes with its binding.                                        *)
LEMMA EntriesStay ==
  ASSUME EntryIsBound, NEW e, NEW o,
         \A f \in Envs, q \in Objects :
           f # e \/ q # o => /\ HasObject(f, q)' <=> HasObject(f, q)
                             /\ <<f, q>> \in bound' <=> <<f, q>> \in bound
                             /\ <<f, q>> \in skipped => <<f, q>> \in skipped',
         e \in Envs /\ o \in Objects => Together(e, o)',
         \A f \in Envs :
           at[f] = "binding" => at'[f] = "binding" /\ on'[f] = on[f]
  PROVE  EntryIsBound'
<1> SUFFICES ASSUME NEW f \in Envs, NEW q \in Objects
             PROVE  Together(f, q)'
  BY DEF EntryIsBound
<1>1. CASE f = e /\ q = o
  BY <1>1
<1>2. CASE f # e \/ q # o
  <2>1. Together(f, q)
    BY DEF EntryIsBound
  <2>2. /\ HasObject(f, q)' <=> HasObject(f, q)
        /\ <<f, q>> \in bound' <=> <<f, q>> \in bound
        /\ <<f, q>> \in skipped => <<f, q>> \in skipped'
    BY <1>2
  <2>3. at[f] = "binding" /\ on[f] = q => at'[f] = "binding" /\ on'[f] = q
    OBVIOUS
  <2> QED BY <2>1, <2>2, <2>3 DEF Together
<1> QED BY <1>1, <1>2

LEMMA AllocateStep ==
  ASSUME ObjectInv, NEW x \in Actors, NEW o \in Objects, Allocate(x, o)
  PROVE  ObjectInv'
<1>1. CountTypeOK'
  BY TypesOf DEF Allocate, CountTypeOK
<1>2. ActorTypeOK' /\ EntryTypeOK' /\ EnvTypeOK' /\ IsFiniteSet(mail')
  BY TypesOf DEF Allocate, ActorTypeOK, EntryTypeOK, EnvTypeOK, ObjectInv
<1>3. /\ life[o] = "none" /\ life'[o] = "alive"
      /\ \A q \in Objects \ {o} : life'[q] = life[q]
      /\ \A q \in RefCounted \ {o} : refs'[q] = refs[q]
      /\ o \in RefCounted => refs'[o] = 1
  BY TypesOf DEF Allocate, CountTypeOK
<1>4. CountsAgree'
  <2>1. \A q \in RefCounted \ {o} : Same(q)
    BY <1>3 DEF Allocate, Same, OwnersOf, HoldersOf, LettersOf, HasObject
  <2>2. ASSUME o \in RefCounted
        PROVE  refs'[o] = Cardinality(OwnersOf(o)')
                          + Cardinality(HoldersOf(o)')
                          + 2 * Cardinality(LettersOf(o)') + lost'[o]
    <3>1. refs[o] = 0
      BY <2>2, <1>3 DEF ObjectInv, Shape, CountedIsAlive
    <3>2. OwnersOf(o) = {} /\ HoldersOf(o) = {} /\ LettersOf(o) = {}
          /\ lost[o] = 0 /\ lost' = lost
      BY <2>2, <3>1, Counted DEF Allocate
    <3>3. OwnersOf(o)' = {x}
      BY <2>2, <3>2 DEF Allocate, OwnersOf
    <3>4. HoldersOf(o)' = {} /\ LettersOf(o)' = {}
      BY <3>2 DEF Allocate, HoldersOf, LettersOf, HasObject
    <3>5. Cardinality(OwnersOf(o)') = 1
      BY <3>3, FS_Singleton
    <3>6. Cardinality(HoldersOf(o)') = 0 /\ Cardinality(LettersOf(o)') = 0
      BY <3>4, FS_EmptySet
    <3> QED BY <1>3, <2>2, <3>2, <3>5, <3>6
  <2> QED BY <2>1, <2>2, CountsStay DEF ObjectInv
<1>5. UNCHANGED <<at, on, ref, bound, skipped, state>> /\ owns \subseteq owns'
  BY DEF Allocate
<1>6. Positions'
  BY <1>3, <1>5, TypesOf, Members
     DEF ActorTypeOK, ObjectInv, Shape, Positions, HasObject
<1>7. OneEnds'
  BY <1>5 DEF ObjectInv, Shape, OneEnds, Ending
<1>8. CountedIsAlive' /\ EntriesAlive'
  BY <1>3, <1>5, Members
     DEF ObjectInv, Shape, CountedIsAlive, EntriesAlive, HasObject
<1>9. EntryIsBound' /\ DisposedIsEmpty'
  BY <1>5 DEF ObjectInv, Shape, EntryIsBound, Together, DisposedIsEmpty,
         HasObject
<1> QED BY <1>1, <1>2, <1>4, <1>6, <1>7, <1>8, <1>9, TypePartsNext
        DEF ObjectInv, Shape

LEMMA ReferenceStep ==
  ASSUME ObjectInv, NEW x \in Actors, NEW o \in RefCounted, Reference(x, o)
  PROVE  ObjectInv'
<1>1. /\ refs' \in [RefCounted -> Nat] /\ refs[o] \in Nat
      /\ refs[o] # 0 /\ refs'[o] = refs[o] + 1 /\ life[o] = "alive"
      /\ \A q \in RefCounted \ {o} : refs'[q] = refs[q]
  BY TypesOf DEF Reference, CountTypeOK
<1>2. PICK s \in {"up", "idle"} : GoOn(x, s, o)
  BY <1>1, AfterType DEF Reference
<1>3. ActorTypeOK' /\ Moved(x, s, o)
  BY <1>2, GoingOn, TypesOf, Members DEF Reference, Step
<1>4. CountTypeOK' /\ EntryTypeOK' /\ EnvTypeOK' /\ IsFiniteSet(mail')
  BY <1>1, TypesOf DEF Reference, CountTypeOK, EntryTypeOK, EnvTypeOK,
                       ObjectInv
<1>5. CountsAgree'
  <2>1. \A q \in RefCounted \ {o} : Same(q)
    BY <1>1 DEF Reference, Same, OwnersOf, HoldersOf, LettersOf, HasObject
  <2>2. OwnersOf(o)' = OwnersOf(o) \cup {x} /\ x \notin OwnersOf(o)
    BY DEF Reference, OwnersOf
  <2>3. HoldersOf(o)' = HoldersOf(o) /\ LettersOf(o)' = LettersOf(o)
        /\ lost' = lost
    BY DEF Reference, HoldersOf, LettersOf, HasObject
  <2>4. Cardinality(OwnersOf(o)') = Cardinality(OwnersOf(o)) + 1
    <3>1. IsFiniteSet(OwnersOf(o))
      BY Counted
    <3> QED BY <2>2, <3>1, FS_AddElement
  <2> QED BY <1>1, <2>1, <2>3, <2>4, Counted, CountsStay DEF ObjectInv
<1>6. UNCHANGED <<life, ref, bound, skipped, state>> /\ at[x] = "idle"
      /\ owns \subseteq owns'
  BY DEF Reference, Idle
<1>7. Positions'
  BY <1>1, <1>3, <1>6 DEF Moved, ObjectInv, Shape, Positions, HasObject
<1>8. OneEnds'
  BY <1>3 DEF Moved, ObjectInv, Shape, OneEnds, Ending
<1>9. CountedIsAlive' /\ EntriesAlive'
  BY <1>1, <1>6 DEF ObjectInv, Shape, CountedIsAlive, EntriesAlive, HasObject
<1>10. EntryIsBound' /\ DisposedIsEmpty'
  BY <1>3, <1>6, Members
     DEF Moved, ObjectInv, Shape, EntryIsBound, Together, DisposedIsEmpty,
         HasObject
<1> QED BY <1>3, <1>4, <1>5, <1>7, <1>8, <1>9, <1>10, TypePartsNext
        DEF ObjectInv, Shape

LEMMA UnreferenceStep ==
  ASSUME ObjectInv, NEW x \in Actors, NEW o \in RefCounted, Unreference(x, o)
  PROVE  ObjectInv'
<1>1. refs[o] \in Nat \ {0} /\ life[o] = "alive"
  <2>1. <<x, o>> \in owns
    BY DEF Unreference
  <2> QED BY <2>1, OwnerHolds DEF Referenced
<1>2. /\ refs' \in [RefCounted -> Nat] /\ refs'[o] = refs[o] - 1
      /\ \A q \in RefCounted \ {o} : refs'[q] = refs[q]
  BY <1>1, TypesOf DEF Unreference, CountTypeOK
<1>3. PICK s \in {"last", "down", "idle"} :
        GoOn(x, s, o) /\ (s = "last" => refs'[o] = 0)
  BY <1>1, <1>2, AfterType DEF Unreference
<1>4. ActorTypeOK' /\ Moved(x, s, o)
  BY <1>3, GoingOn, TypesOf, Members DEF Unreference, Step
<1>5. CountTypeOK' /\ EntryTypeOK' /\ EnvTypeOK' /\ IsFiniteSet(mail')
  BY <1>2, TypesOf DEF Unreference, CountTypeOK, EntryTypeOK, EnvTypeOK,
                       ObjectInv
<1>6. CountsAgree'
  <2>1. \A q \in RefCounted \ {o} : Same(q)
    BY <1>2 DEF Unreference, Same, OwnersOf, HoldersOf, LettersOf, HasObject
  <2>2. OwnersOf(o)' = OwnersOf(o) \ {x} /\ x \in OwnersOf(o)
    BY DEF Unreference, OwnersOf
  <2>3. HoldersOf(o)' = HoldersOf(o) /\ LettersOf(o)' = LettersOf(o)
        /\ lost' = lost
    BY DEF Unreference, HoldersOf, LettersOf, HasObject
  <2>4. Cardinality(OwnersOf(o)') = Cardinality(OwnersOf(o)) - 1
    BY <2>2, Counted, FS_RemoveElement, ZenonT(30)
  <2> QED BY <1>2, <2>1, <2>3, <2>4, Counted, CountsStay DEF ObjectInv
<1>7. UNCHANGED <<life, ref, bound, skipped, state>> /\ at[x] = "idle"
      /\ owns' = owns \ {<<x, o>>}
  BY DEF Unreference, Idle
<1>8. Positions'
  BY <1>1, <1>2, <1>3, <1>4, <1>7
     DEF Moved, ObjectInv, Shape, Positions, HasObject
<1>9. OneEnds'
  <2>1. \A y \in Actors : ~Ending(y, o)
    BY <1>1, NotEnding, Members
  <2> QED BY <1>4, <2>1 DEF Moved, ObjectInv, Shape, OneEnds, Ending
<1>10. CountedIsAlive' /\ EntriesAlive'
  BY <1>1, <1>2, <1>7
     DEF ObjectInv, Shape, CountedIsAlive, EntriesAlive, HasObject
<1>11. EntryIsBound' /\ DisposedIsEmpty'
  BY <1>4, <1>7, Members
     DEF Moved, ObjectInv, Shape, EntryIsBound, Together, DisposedIsEmpty,
         HasObject
<1> QED BY <1>4, <1>5, <1>6, <1>8, <1>9, <1>10, <1>11, TypePartsNext
        DEF ObjectInv, Shape

(* What a callback makes of a handle is no new entry, and empties none. *)
LEMMA SettledKeeps ==
  ASSUME ObjectInv, NEW e \in Envs, NEW o \in Objects, NEW up,
         ref' = [ref EXCEPT ![e][o] = Settled(e, o, up)]
  PROVE  /\ ref' \in [Envs ->
                      [Objects -> {"none", "empty", "weak", "strong"}]]
         /\ \A f \in Envs, q \in Objects :
              /\ ref'[f][q] = "none" <=> ref[f][q] = "none"
              /\ ref'[f][q] = "empty" <=> ref[f][q] = "empty"
<1>1. ref \in [Envs -> [Objects -> {"none", "empty", "weak", "strong"}]]
  BY TypesOf DEF EntryTypeOK
<1>2. /\ Settled(e, o, up) \in {"none", "empty", "weak", "strong"}
      /\ Settled(e, o, up) = "none" <=> ref[e][o] = "none"
      /\ Settled(e, o, up) = "empty" <=> ref[e][o] = "empty"
  BY <1>1 DEF Settled, TryGetObject
<1> QED BY <1>1, <1>2

LEMMA ReferenceCallbackStep ==
  ASSUME ObjectInv, NEW x \in Actors, ReferenceCallback(x)
  PROVE  ObjectInv'
<1> PICK o \in Objects : o = on[x]
  BY TypesOf, Members DEF ReferenceCallback, ObjectInv, Shape, Positions
<1>1. o \in RefCounted /\ o \in Objects
  BY Members DEF ReferenceCallback, ObjectInv, Shape, Positions
<1>2. /\ ref' \in [Envs -> [Objects -> {"none", "empty", "weak", "strong"}]]
      /\ \A f \in Envs, q \in Objects :
           /\ ref'[f][q] = "none" <=> ref[f][q] = "none"
           /\ ref'[f][q] = "empty" <=> ref[f][q] = "empty"
  <2>1. CASE x \in Called(o)
    <3>1. ref' = [ref EXCEPT ![x][o] = Settled(x, o, at[x] = "up")]
      BY <2>1 DEF ReferenceCallback
    <3>2. x \in Envs
      BY <2>1 DEF Called
    <3> QED BY <1>1, <3>1, <3>2, SettledKeeps
  <2>2. CASE x \notin Called(o)
    <3>1. ref' = ref
      BY <2>2 DEF ReferenceCallback
    <3> QED BY <3>1, TypesOf DEF EntryTypeOK
  <2> QED BY <2>1, <2>2
<1>3. calls' \in [Envs -> Seq(Call)]
  <2>1. [up |-> at[x] = "up", obj |-> o] \in Call
    BY <1>1 DEF Call
  <2>2. calls \in [Envs -> Seq(Call)]
    BY TypesOf DEF EnvTypeOK
  <2>3. \A e \in Envs :
          Append(calls[e], [up |-> at[x] = "up", obj |-> o]) \in Seq(Call)
    BY <2>1, <2>2
  <2> QED BY <2>2, <2>3 DEF ReferenceCallback
<1>4. UNCHANGED <<refs, owns, bound, state, mail, lost, skipped>>
  BY DEF ReferenceCallback
<1>5. EntryTypeOK' /\ EnvTypeOK' /\ IsFiniteSet(mail')
  BY <1>2, <1>3, TypesOf
     DEF ReferenceCallback, EntryTypeOK, EnvTypeOK, ObjectInv
<1>6. CountsAgree'
  <2>1. \A q \in RefCounted : Same(q)
    BY <1>2, <1>4, Members
       DEF Same, OwnersOf, HoldersOf, LettersOf, HasObject
  <2> QED BY <2>1, NothingCounted DEF ObjectInv
<1>7. DisposedIsEmpty'
  BY <1>2, <1>4, Members
     DEF ObjectInv, Shape, DisposedIsEmpty, HasObject
<1>8. CASE at[x] = "last" /\ Called(o) = {}
  <2>1. Go(x, "dying", o) /\ life' = [life EXCEPT ![o] = "dying"]
    BY <1>8 DEF ReferenceCallback
  <2>2. ActorTypeOK' /\ Moved(x, "dying", o)
    BY <1>1, <2>1, Going, TypesOf DEF ReferenceCallback, Step
  <2>3. CountTypeOK' /\ life'[o] = "dying"
        /\ \A q \in Objects \ {o} : life'[q] = life[q]
    BY <1>1, <1>4, <2>1, TypesOf DEF CountTypeOK
  <2>4. refs[o] = 0
    BY <1>8 DEF ObjectInv, Shape, Positions
  <2>5. \A e \in Envs : ~HasObject(e, o)
    BY <1>1, <2>4, Counted DEF HoldersOf
  <2>6. \A y \in Actors : Ending(y, o) => y = x
    BY <1>1, <1>8 DEF ObjectInv, Shape, OneEnds, Ending
  <2>7. Positions'
    BY <1>1, <1>2, <1>4, <2>2, <2>3, <2>5, <2>6, TypesOf, Members
       DEF Moved, ObjectInv, Shape, Positions, Ending, HasObject, ActorTypeOK
  <2>8. OneEnds'
    BY <2>2, <2>6 DEF Moved, ObjectInv, Shape, OneEnds, Ending
  <2>9. CountedIsAlive' /\ EntriesAlive'
    BY <1>2, <1>4, <2>3, <2>4, Members
       DEF ObjectInv, Shape, CountedIsAlive, EntriesAlive, HasObject
  <2>10. EntryIsBound'
    <3>1. \A e \in Envs :
            at[e] = "binding" => at'[e] = "binding" /\ on'[e] = on[e]
      BY <1>8, <2>2, Members DEF Moved
    <3>2. \A e \in Envs, q \in Objects : HasObject(e, q)' <=> HasObject(e, q)
      BY <1>2 DEF HasObject
    <3>3. EntryIsBound
      BY DEF ObjectInv, Shape
    <3> QED BY <1>4, <3>1, <3>2, <3>3 DEF EntryIsBound, Together
  <2> QED BY <1>5, <1>6, <1>7, <2>2, <2>3, <2>7, <2>8, <2>9, <2>10,
             TypePartsNext DEF ObjectInv, Shape
<1>9. CASE ~(at[x] = "last" /\ Called(o) = {})
  <2>1. Rest(x) /\ life' = life
    BY <1>9 DEF ReferenceCallback
  <2>2. ActorTypeOK' /\ Moved(x, "idle", NoObject)
    BY <2>1, Resting, TypesOf DEF ReferenceCallback
  <2>3. CountTypeOK'
    BY <1>4, <2>1, TypesOf DEF CountTypeOK
  <2>4. at[x] \in {"up", "down", "last"}
    BY DEF ReferenceCallback
  <2>5. Positions'
    BY <1>2, <1>4, <2>1, <2>2, Members, TypesOf
       DEF Moved, ObjectInv, Shape, Positions, HasObject, ActorTypeOK
  <2>6. OneEnds'
    BY <2>2 DEF Moved, ObjectInv, Shape, OneEnds, Ending
  <2>7. CountedIsAlive' /\ EntriesAlive'
    BY <1>2, <1>4, <2>1, Members
       DEF ObjectInv, Shape, CountedIsAlive, EntriesAlive, HasObject
  <2>8. EntryIsBound'
    <3>1. \A e \in Envs :
            at[e] = "binding" => at'[e] = "binding" /\ on'[e] = on[e]
      BY <2>2, <2>4, Members DEF Moved
    <3>2. \A e \in Envs, q \in Objects : HasObject(e, q)' <=> HasObject(e, q)
      BY <1>2 DEF HasObject
    <3>3. EntryIsBound
      BY DEF ObjectInv, Shape
    <3> QED BY <1>4, <3>1, <3>2, <3>3 DEF EntryIsBound, Together
  <2> QED BY <1>5, <1>6, <1>7, <2>2, <2>3, <2>5, <2>6, <2>7, <2>8,
             TypePartsNext DEF ObjectInv, Shape
<1> QED BY <1>8, <1>9

LEMMA FreeStep ==
  ASSUME ObjectInv, NEW x \in Actors, NEW o \in Plain, Free(x, o)
  PROVE  ObjectInv'
<1>1. o \in Objects /\ o \notin RefCounted /\ life[o] = "alive"
  BY BindingAssumption, Members DEF Free
<1>2. ActorTypeOK' /\ Moved(x, "dying", o)
  BY <1>1, Going, TypesOf DEF Free, Step
<1>3. CountTypeOK' /\ life'[o] = "dying"
      /\ \A q \in Objects \ {o} : life'[q] = life[q]
  BY <1>1, TypesOf DEF Free, CountTypeOK
<1>4. EntryTypeOK' /\ EnvTypeOK' /\ IsFiniteSet(mail')
  BY TypesOf DEF Free, EntryTypeOK, EnvTypeOK, ObjectInv
<1>5. UNCHANGED <<refs, owns, ref, bound, state, mail, lost, skipped>>
      /\ at[x] = "idle"
  BY DEF Free, Idle
<1>6. CountsAgree'
  <2>1. \A q \in RefCounted : Same(q)
    BY <1>5 DEF Same, OwnersOf, HoldersOf, LettersOf, HasObject
  <2> QED BY <2>1, NothingCounted DEF ObjectInv
<1>7. \A y \in Actors : ~Ending(y, o)
  BY <1>1, NotEnding
<1>8. Positions'
  BY <1>1, <1>2, <1>3, <1>5, <1>7, TypesOf
     DEF Free, Unused, Moved, ObjectInv, Shape, Positions, Ending, HasObject,
         ActorTypeOK
<1>9. OneEnds'
  BY <1>2, <1>7 DEF Moved, ObjectInv, Shape, OneEnds, Ending
<1>10. CountedIsAlive' /\ EntriesAlive'
  BY <1>1, <1>3, <1>5, Members
     DEF ObjectInv, Shape, CountedIsAlive, EntriesAlive, HasObject
<1>11. EntryIsBound' /\ DisposedIsEmpty'
  BY <1>2, <1>5, Members
     DEF Moved, ObjectInv, Shape, EntryIsBound, Together, DisposedIsEmpty,
         HasObject
<1> QED BY <1>2, <1>3, <1>4, <1>6, <1>8, <1>9, <1>10, <1>11, TypePartsNext
        DEF ObjectInv, Shape

LEMMA FreeCallbackStep ==
  ASSUME ObjectInv, NEW x \in Actors, NEW e \in Envs, FreeCallback(x, e)
  PROVE  ObjectInv'
<1> PICK o \in Objects : o = on[x]
  BY TypesOf, Members DEF FreeCallback, ActorTypeOK
<1>1. o \in Objects /\ at[x] = "dying" /\ <<e, o>> \in bound
  BY TypesOf DEF FreeCallback, ActorTypeOK
<1>2. UNCHANGED <<life, refs, owns, ref, jsOwned, calls, pending, state, mail,
                  on, lost>>
  BY DEF FreeCallback
<1>3. CountsAgree'
  <2>1. \A q \in RefCounted : Same(q)
    BY <1>2 DEF Same, OwnersOf, HoldersOf, LettersOf, HasObject
  <2> QED BY <2>1, NothingCounted DEF ObjectInv
<1>4. CountTypeOK' /\ IsFiniteSet(mail')
  BY <1>2, TypesOf DEF CountTypeOK, ObjectInv
<1>5. CountedIsAlive' /\ EntriesAlive' /\ DisposedIsEmpty'
  BY <1>2 DEF ObjectInv, Shape, CountedIsAlive, EntriesAlive, DisposedIsEmpty,
              HasObject
<1>6. CASE InStore(e) /\ HasObject(e, o)
  <2>1. /\ at' = [at EXCEPT ![x] = "freeing"]
        /\ entered' = [entered EXCEPT ![x] = e]
        /\ inside' = [inside EXCEPT ![e] = TRUE]
        /\ UNCHANGED <<bound, skipped>>
    BY <1>6 DEF FreeCallback
  <2>2. ActorTypeOK' /\ Moved(x, "freeing", o)
    BY <1>1, <1>2, <2>1, TypesOf DEF ActorTypeOK, Moved, Step
  <2>3. EntryTypeOK' /\ EnvTypeOK'
    BY <1>2, <2>1, TypesOf DEF EntryTypeOK, EnvTypeOK
  <2>4. Positions'
    BY <1>1, <1>2, <2>2 DEF Moved, ObjectInv, Shape, Positions, HasObject
  <2>5. OneEnds'
    BY <1>1, <2>2 DEF Moved, ObjectInv, Shape, OneEnds, Ending
  <2>6. EntryIsBound'
    BY <1>1, <1>2, <2>1, <2>2, Members
       DEF Moved, ObjectInv, Shape, EntryIsBound, Together, HasObject
  <2> QED BY <1>3, <1>4, <1>5, <2>2, <2>3, <2>4, <2>5, <2>6, TypePartsNext
          DEF ObjectInv, Shape
<1>7. CASE ~(InStore(e) /\ HasObject(e, o))
  <2>1. /\ bound' = bound \ {<<e, o>>} /\ skipped' = skipped \ {<<e, o>>}
        /\ UNCHANGED <<inside, at, entered>>
    BY <1>7 DEF FreeCallback
  <2>2. ~HasObject(e, o)
    BY <1>7 DEF InStore, ObjectInv, Shape, DisposedIsEmpty
  <2>3. ActorTypeOK' /\ EntryTypeOK' /\ EnvTypeOK'
    BY <1>2, <2>1, TypesOf DEF ActorTypeOK, EntryTypeOK, EnvTypeOK
  <2>4. Positions' /\ OneEnds'
    BY <1>2, <2>1 DEF ObjectInv, Shape, Positions, OneEnds, Ending, HasObject
  <2>5. EntryIsBound'
    <3>1. \A f \in Envs :
            at[f] = "binding" => at'[f] = "binding" /\ on'[f] = on[f]
      BY <1>2, <2>1
    <3>2. \A f \in Envs, q \in Objects :
            f # e \/ q # o =>
              /\ HasObject(f, q)' <=> HasObject(f, q)
              /\ <<f, q>> \in bound' <=> <<f, q>> \in bound
              /\ <<f, q>> \in skipped => <<f, q>> \in skipped'
      BY <1>2, <2>1 DEF HasObject
    <3>3. Together(e, o)'
      BY <1>2, <2>1, <2>2 DEF Together, HasObject
    <3>4. EntryIsBound
      BY DEF ObjectInv, Shape
    <3> QED BY <3>1, <3>2, <3>3, <3>4, EntriesStay
  <2> QED BY <1>3, <1>4, <1>5, <2>3, <2>4, <2>5, TypePartsNext
          DEF ObjectInv, Shape
<1> QED BY <1>6, <1>7

(* An object that is counted dies without entries, so the callback finds *)
(* the entry of an object that is not.                                   *)
LEMMA LeaveFreeCallbackStep ==
  ASSUME ObjectInv, NEW x \in Actors, NEW e \in Envs, LeaveFreeCallback(x, e)
  PROVE  ObjectInv'
<1> PICK o \in Objects : o = on[x]
  BY TypesOf, Members DEF LeaveFreeCallback, ActorTypeOK
<1>1. o \in Objects /\ at[x] = "freeing" /\ life[o] = "dying"
  BY TypesOf
     DEF LeaveFreeCallback, ActorTypeOK, ObjectInv, Shape, Positions
<1>2. o \in RefCounted => ~HasObject(e, o)
  BY <1>1, EntryHolds DEF Referenced
<1>3. UNCHANGED <<life, refs, owns, calls, pending, state, mail, on, lost>>
  BY DEF LeaveFreeCallback
<1>4. PICK s \in {"dying", "stuck"} : ActorTypeOK' /\ Moved(x, s, o)
  <2>1. PICK s \in {"dying", "stuck"} :
          /\ at' = [at EXCEPT ![x] = s]
          /\ entered' = [entered EXCEPT ![x] = NoObject]
    BY DEF LeaveFreeCallback
  <2> QED BY <1>1, <1>3, <2>1, TypesOf DEF ActorTypeOK, Moved, Step
<1>5. /\ ref' = [ref EXCEPT ![e][o] = "none"]
      /\ jsOwned' = jsOwned \ {<<e, o>>}
      /\ \/ bound' = bound \ {<<e, o>>} /\ skipped' = skipped \ {<<e, o>>}
         \/ bound' = bound /\ skipped' = skipped \cup {<<e, o>>}
      /\ inside' = inside \/ inside' = [inside EXCEPT ![e] = FALSE]
  BY DEF LeaveFreeCallback
<1>6. /\ EntryTypeOK' /\ ref'[e][o] = "none"
      /\ \A f \in Envs, q \in Objects :
           f # e \/ q # o => ref'[f][q] = ref[f][q]
  BY <1>3, <1>5, TypesOf DEF EntryTypeOK
<1>7. CountTypeOK' /\ EnvTypeOK' /\ IsFiniteSet(mail')
  BY <1>3, <1>5, TypesOf DEF CountTypeOK, EnvTypeOK, ObjectInv
<1>8. CountsAgree'
  <2>1. \A f \in Envs, q \in RefCounted : HasObject(f, q)' <=> HasObject(f, q)
    BY <1>2, <1>6, Members DEF HasObject
  <2>2. \A q \in RefCounted : Same(q)
    BY <1>3, <2>1 DEF Same, OwnersOf, HoldersOf, LettersOf
  <2> QED BY <2>2, NothingCounted DEF ObjectInv
<1>9. Positions'
  BY <1>1, <1>3, <1>4, <1>6, TypesOf, Members
     DEF Moved, ObjectInv, Shape, Positions, HasObject, ActorTypeOK
<1>10. OneEnds'
  BY <1>1, <1>4 DEF Moved, ObjectInv, Shape, OneEnds, Ending
<1>11. CountedIsAlive' /\ EntriesAlive' /\ DisposedIsEmpty'
  BY <1>3, <1>6
     DEF ObjectInv, Shape, CountedIsAlive, EntriesAlive, DisposedIsEmpty,
         HasObject
<1>12. EntryIsBound'
  <2>1. \A f \in Envs :
          at[f] = "binding" => at'[f] = "binding" /\ on'[f] = on[f]
    BY <1>1, <1>4, Members DEF Moved
  <2>2. \A f \in Envs, q \in Objects :
          f # e \/ q # o =>
            /\ HasObject(f, q)' <=> HasObject(f, q)
            /\ <<f, q>> \in bound' <=> <<f, q>> \in bound
            /\ <<f, q>> \in skipped => <<f, q>> \in skipped'
    BY <1>5, <1>6 DEF HasObject
  <2>3. Together(e, o)'
    BY <1>5, <1>6 DEF Together, HasObject
  <2>4. EntryIsBound
    BY DEF ObjectInv, Shape
  <2> QED BY <2>1, <2>2, <2>3, <2>4, EntriesStay
<1> QED BY <1>4, <1>6, <1>7, <1>8, <1>9, <1>10, <1>11, <1>12, TypePartsNext
        DEF ObjectInv, Shape

LEMMA DeletedStep ==
  ASSUME ObjectInv, NEW x \in Actors, Deleted(x)
  PROVE  ObjectInv'
<1> PICK o \in Objects : o = on[x]
  BY TypesOf, Members DEF Deleted, ActorTypeOK
<1>1. o \in Objects /\ at[x] = "dying" /\ life[o] = "dying"
  BY TypesOf DEF Deleted, ActorTypeOK, ObjectInv, Shape, Positions
<1>2. UNCHANGED <<refs, owns, ref, bound, state, lost, skipped>>
  BY DEF Deleted
<1>3. ActorTypeOK' /\ Moved(x, "idle", NoObject)
  BY Resting, TypesOf DEF Deleted
<1>4. CountTypeOK' /\ life'[o] = "none"
      /\ \A q \in Objects \ {o} : life'[q] = life[q]
  BY <1>1, TypesOf DEF Deleted, CountTypeOK
<1>5. EntryTypeOK' /\ EnvTypeOK'
  BY TypesOf DEF Deleted, EntryTypeOK, EnvTypeOK
<1>6. IsFiniteSet(mail')
  BY FS_Subset DEF Deleted, ObjectInv
<1>7. CountsAgree'
  <2>1. o \in RefCounted => LettersOf(o) = {}
    <3>1. o \in RefCounted => refs[o] = 0
      BY <1>1 DEF ObjectInv, Shape, CountedIsAlive
    <3> QED BY <3>1, Counted
  <2>2. \A q \in RefCounted : LettersOf(q)' = LettersOf(q)
    BY <2>1 DEF Deleted, LettersOf
  <2>3. \A q \in RefCounted : Same(q)
    BY <1>2, <2>2 DEF Same, OwnersOf, HoldersOf, HasObject
  <2> QED BY <2>3, NothingCounted DEF ObjectInv
<1>8. \A y \in Actors : Ending(y, o) => y = x
  BY <1>1 DEF ObjectInv, Shape, OneEnds, Ending
<1>9. Positions'
  BY <1>1, <1>2, <1>3, <1>4, <1>8, TypesOf
     DEF Moved, ObjectInv, Shape, Positions, Ending, HasObject, ActorTypeOK
<1>10. OneEnds'
  BY <1>3 DEF Moved, ObjectInv, Shape, OneEnds, Ending
<1>11. CountedIsAlive'
  BY <1>1, <1>2, <1>4, Members DEF ObjectInv, Shape, CountedIsAlive
<1>12. EntriesAlive'
  <2>1. \A e \in Envs : ~(at[e] = "binding" /\ on[e] = o)
    BY <1>1, Members DEF ObjectInv, Shape, Positions
  <2>2. \A e \in Envs : <<e, o>> \notin bound
    BY DEF Deleted
  <2>3. \A e \in Envs : ~HasObject(e, o)
    BY <1>1, <2>1, <2>2, ZenonT(30) DEF ObjectInv, Shape, EntryIsBound, Together
  <2> QED BY <1>2, <1>4, <2>3 DEF ObjectInv, Shape, EntriesAlive, HasObject
<1>13. DisposedIsEmpty'
  BY <1>2 DEF ObjectInv, Shape, DisposedIsEmpty, HasObject
<1>14. EntryIsBound'
  BY <1>1, <1>2, <1>3, Members
     DEF Moved, ObjectInv, Shape, EntryIsBound, Together, HasObject
<1> QED BY <1>3, <1>4, <1>5, <1>6, <1>7, <1>9, <1>10, <1>11, <1>12, <1>13,
           <1>14, TypePartsNext DEF ObjectInv, Shape

LEMMA DropMessageStep ==
  ASSUME ObjectInv, NEW x \in Actors, NEW m \in mail, DropMessage(x, m)
  PROVE  ObjectInv'
<1> PICK o \in Objects : o = m.obj
  BY TypesOf DEF CountTypeOK, Letter
<1>1. /\ mail' = mail \ {m} /\ at[x] = "idle"
      /\ UNCHANGED <<life, owns, ref, jsOwned, bound, calls, pending, inside,
                     state, entered, skipped>>
  BY DEF DropMessage, Idle
<1>2. EntryTypeOK' /\ EnvTypeOK'
  BY <1>1, TypesOf DEF EntryTypeOK, EnvTypeOK
<1>3. IsFiniteSet(mail')
  BY <1>1, FS_RemoveElement DEF ObjectInv
<1>4. EntriesAlive' /\ DisposedIsEmpty'
  BY <1>1 DEF ObjectInv, Shape, EntriesAlive, DisposedIsEmpty, HasObject
<1>5. CASE o \notin RefCounted
  <2>1. UNCHANGED <<refs, lost, at, on>>
    BY <1>5 DEF DropMessage
  <2>2. ActorTypeOK' /\ CountTypeOK'
    BY <1>1, <2>1, TypesOf DEF ActorTypeOK, CountTypeOK
  <2>3. CountsAgree'
    <3>1. \A q \in RefCounted : LettersOf(q)' = LettersOf(q)
      BY <1>1, <1>5 DEF LettersOf
    <3>2. \A q \in RefCounted : Same(q)
      BY <1>1, <2>1, <3>1 DEF Same, OwnersOf, HoldersOf, HasObject
    <3> QED BY <3>2, NothingCounted DEF ObjectInv
  <2>4. Positions' /\ OneEnds' /\ CountedIsAlive' /\ EntryIsBound'
    BY <1>1, <2>1 DEF ObjectInv, Shape, Positions, OneEnds, Ending,
                      CountedIsAlive, EntryIsBound, Together, HasObject
  <2> QED BY <1>2, <1>3, <1>4, <2>2, <2>3, <2>4, TypePartsNext
          DEF ObjectInv, Shape
<1>6. CASE o \in RefCounted
  <2>1. refs[o] \in Nat \ {0} /\ life[o] = "alive"
    BY <1>6, LetterHolds DEF Referenced
  <2>2. /\ refs' = [refs EXCEPT ![o] = @ - 1]
        /\ lost' = [lost EXCEPT ![o] = @ + 1]
        /\ GoOn(x, AfterDec(refs[o] - 1), o)
    BY <1>6 DEF DropMessage
  <2>3. /\ refs' \in [RefCounted -> Nat] /\ refs'[o] = refs[o] - 1
        /\ lost' \in [RefCounted -> Nat] /\ lost'[o] = lost[o] + 1
        /\ \A q \in RefCounted \ {o} : refs'[q] = refs[q] /\ lost'[q] = lost[q]
    BY <1>6, <2>1, <2>2, TypesOf DEF CountTypeOK
  <2>4. PICK s \in {"last", "down", "idle"} :
          GoOn(x, s, o) /\ (s = "last" => refs'[o] = 0)
    BY <2>1, <2>2, <2>3, AfterType
  <2>5. ActorTypeOK' /\ Moved(x, s, o)
    BY <1>1, <2>4, GoingOn, TypesOf DEF Step, Idle
  <2>6. CountTypeOK'
    BY <1>1, <2>3, TypesOf DEF CountTypeOK
  <2>7. CountsAgree'
    <3>1. \A q \in RefCounted \ {o} : LettersOf(q)' = LettersOf(q)
      BY <1>1 DEF LettersOf
    <3>2. \A q \in RefCounted \ {o} : Same(q)
      BY <1>1, <2>3, <3>1 DEF Same, OwnersOf, HoldersOf, HasObject
    <3>3. LettersOf(o)' = LettersOf(o) \ {m} /\ m \in LettersOf(o)
      BY <1>1 DEF LettersOf
    <3>4. OwnersOf(o)' = OwnersOf(o) /\ HoldersOf(o)' = HoldersOf(o)
      BY <1>1 DEF OwnersOf, HoldersOf, HasObject
    <3>5. Cardinality(LettersOf(o)') = Cardinality(LettersOf(o)) - 1
      <4>1. IsFiniteSet(LettersOf(o))
        BY <1>6, Counted
      <4> QED BY <3>3, <4>1, FS_RemoveElement
    <3>6. refs'[o] = Cardinality(OwnersOf(o)') + Cardinality(HoldersOf(o)')
                     + 2 * Cardinality(LettersOf(o)') + lost'[o]
      BY <1>6, <2>3, <3>4, <3>5, Counted
    <3> QED BY <3>2, <3>6, CountsStay DEF ObjectInv
  <2>8. Positions'
    <3>1. \A y \in Actors : at[y] = "last" => on[y] # o
      BY <2>1 DEF ObjectInv, Shape, Positions
    <3>2. Positions
      BY DEF ObjectInv, Shape
    <3>3. /\ at'[x] = s /\ s \in {"last", "down", "idle"}
          /\ s # "idle" => on'[x] = o
          /\ s = "last" => refs'[o] = 0
      BY <2>4, <2>5 DEF Moved
    <3>4. \A y \in Actors \ {x} :
            /\ at'[y] = at[y] /\ on'[y] = on[y]
            /\ at'[y] = "last" => refs'[on[y]] = refs[on[y]]
      BY <2>3, <2>5, <3>1, <3>2 DEF Moved, Positions
    <3> QED BY <1>1, <1>6, <2>1, <3>2, <3>3, <3>4 DEF Positions, HasObject
  <2>9. OneEnds'
    <3>1. \A y \in Actors : ~Ending(y, o)
      BY <2>1, NotEnding
    <3> QED BY <2>5, <3>1 DEF Moved, ObjectInv, Shape, OneEnds, Ending
  <2>10. CountedIsAlive'
    BY <1>1, <2>1, <2>3 DEF ObjectInv, Shape, CountedIsAlive
  <2>11. EntryIsBound'
    BY <1>1, <2>5, Members
       DEF Moved, ObjectInv, Shape, EntryIsBound, Together, HasObject
  <2> QED BY <1>2, <1>3, <1>4, <2>5, <2>6, <2>7, <2>8, <2>9, <2>10, <2>11,
             TypePartsNext DEF ObjectInv, Shape
<1> QED BY <1>5, <1>6

LEMMA BindPointerStep ==
  ASSUME ObjectInv, NEW e \in Envs, NEW o \in Objects, NEW owned \in BOOLEAN,
         Live(e), life[o] = "alive",
         o \in RefCounted => <<e, o>> \in owns, BindPointer(e, o, owned),
         UNCHANGED <<life, owns, bound, calls, pending, inside, state, mail,
                     entered, skipped>>
  PROVE  ObjectInv'
<1>1. e \in Actors /\ at[e] = "idle" /\ state[e] = "live"
  BY Members DEF Live, Idle
<1>2. ActorTypeOK' /\ Moved(e, "binding", o)
  <2>1. Go(e, "binding", o)
    BY DEF BindPointer
  <2> QED BY <1>1, <2>1, Going, TypesOf DEF Step
<1>3. o \in RefCounted => refs[o] \in Nat \ {0}
  BY <1>1, OwnerHolds DEF Referenced
<1>4. /\ refs' \in [RefCounted -> Nat]
      /\ \A q \in RefCounted \ {o} : refs'[q] = refs[q]
      /\ o \in RefCounted => refs'[o] = refs[o] + 1
  <2>1. CASE o \in RefCounted
    <3>1. refs' = [refs EXCEPT ![o] = refs[o] + 1]
      BY <2>1 DEF BindPointer
    <3>2. refs \in [RefCounted -> Nat]
      BY TypesOf DEF CountTypeOK
    <3> QED BY <2>1, <3>1, <3>2
  <2>2. CASE o \notin RefCounted
    <3>1. refs' = refs
      BY <2>2 DEF BindPointer
    <3> QED BY <2>2, <3>1, TypesOf DEF CountTypeOK
  <2> QED BY <2>1, <2>2
<1>15. /\ lost' \in [RefCounted -> Nat]
       /\ \A q \in RefCounted \ {o} : lost'[q] = lost[q]
       /\ o \in RefCounted =>
            lost'[o] = IF HasObject(e, o) THEN lost[o] + 1 ELSE lost[o]
  <2>1. lost \in [RefCounted -> Nat]
    BY TypesOf DEF CountTypeOK
  <2>2. lost' = IF o \in RefCounted /\ HasObject(e, o)
                  THEN [lost EXCEPT ![o] = @ + 1] ELSE lost
    BY DEF BindPointer
  <2>3. CASE o \in RefCounted /\ HasObject(e, o)
    BY <2>1, <2>2, <2>3
  <2>4. CASE ~(o \in RefCounted /\ HasObject(e, o))
    BY <2>1, <2>2, <2>4
  <2> QED BY <2>3, <2>4
<1>5. /\ ref' \in [Envs -> [Objects -> {"none", "empty", "weak", "strong"}]]
      /\ ref'[e][o] \in {"weak", "strong"}
      /\ \A f \in Envs, q \in Objects :
           f # e \/ q # o => ref'[f][q] = ref[f][q]
  <2>1. PICK h \in {"weak", "strong"} : ref' = [ref EXCEPT ![e][o] = h]
    <3>1. ref' = [ref EXCEPT ![e][o] = "weak"]
          \/ ref' = [ref EXCEPT ![e][o] = "strong"]
      BY DEF BindPointer
    <3> QED BY <3>1
  <2> QED BY <2>1, TypesOf DEF EntryTypeOK
<1>6. EntryTypeOK'
  <2>1. jsOwned' \subseteq Envs \X Objects
    BY TypesOf DEF BindPointer, EntryTypeOK
  <2> QED BY <1>5, <2>1, TypesOf DEF EntryTypeOK
<1>7. CountTypeOK' /\ EnvTypeOK' /\ IsFiniteSet(mail')
  BY <1>4, <1>15, TypesOf DEF CountTypeOK, EnvTypeOK, ObjectInv
<1>8. CountsAgree'
  <2>1. \A q \in RefCounted \ {o} : Same(q)
    BY <1>4, <1>5, <1>15, Members
       DEF Same, OwnersOf, HoldersOf, LettersOf, HasObject
  <2>2. ASSUME o \in RefCounted
        PROVE  refs'[o] = Cardinality(OwnersOf(o)')
                          + Cardinality(HoldersOf(o)')
                          + 2 * Cardinality(LettersOf(o)') + lost'[o]
    <3>1. OwnersOf(o)' = OwnersOf(o) /\ LettersOf(o)' = LettersOf(o)
      BY DEF OwnersOf, LettersOf
    <3>2. CASE HasObject(e, o)
      <4>1. HoldersOf(o)' = HoldersOf(o)
        BY <1>5, <3>2 DEF HoldersOf, HasObject
      <4> QED BY <1>4, <1>15, <2>2, <3>1, <3>2, <4>1, Counted
    <3>3. CASE ~HasObject(e, o)
      <4>1. HoldersOf(o)' = HoldersOf(o) \cup {e} /\ e \notin HoldersOf(o)
        BY <1>5, <3>3 DEF HoldersOf, HasObject
      <4>2. Cardinality(HoldersOf(o)') = Cardinality(HoldersOf(o)) + 1
        <5>1. IsFiniteSet(HoldersOf(o))
          BY <2>2, Counted
        <5> QED BY <4>1, <5>1, FS_AddElement
      <4> QED BY <1>4, <1>15, <2>2, <3>1, <3>3, <4>2, Counted
    <3> QED BY <3>2, <3>3
  <2> QED BY <2>1, <2>2, CountsStay DEF ObjectInv
<1>10. Positions'
  <2>1. \A y \in Actors : at[y] = "last" => on[y] # o
    BY <1>3 DEF ObjectInv, Shape, Positions
  <2> QED BY <1>2, <1>4, <1>5, <2>1, TypesOf, SMTT(30)
          DEF Moved, ObjectInv, Shape, Positions, HasObject, ActorTypeOK
<1>11. OneEnds'
  BY <1>2 DEF Moved, ObjectInv, Shape, OneEnds, Ending
<1>12. CountedIsAlive' /\ EntriesAlive' /\ DisposedIsEmpty'
  BY <1>1, <1>4, <1>5
     DEF ObjectInv, Shape, CountedIsAlive, EntriesAlive, DisposedIsEmpty,
         HasObject
<1>14. EntryIsBound'
  <2>1. \A f \in Envs :
          at[f] = "binding" => at'[f] = "binding" /\ on'[f] = on[f]
    BY <1>1, <1>2, Members DEF Moved
  <2>2. \A f \in Envs, q \in Objects :
          f # e \/ q # o => /\ HasObject(f, q)' <=> HasObject(f, q)
                            /\ <<f, q>> \in bound' <=> <<f, q>> \in bound
                            /\ <<f, q>> \in skipped => <<f, q>> \in skipped'
    BY <1>5 DEF HasObject
  <2>3. Together(e, o)'
    BY <1>2, <1>5 DEF Together, Moved, HasObject
  <2>4. EntryIsBound
    BY DEF ObjectInv, Shape
  <2> QED BY <2>1, <2>2, <2>3, <2>4, EntriesStay
<1> QED BY <1>2, <1>6, <1>7, <1>8, <1>10, <1>11, <1>12, <1>14,
           TypePartsNext DEF ObjectInv, Shape

LEMMA BindStep ==
  ASSUME ObjectInv, NEW e \in Envs, NEW o \in Objects,
         NEW owned \in BOOLEAN, Bind(e, o, owned)
  PROVE  ObjectInv'
BY BindPointerStep DEF Bind

LEMMA CrossbindStep ==
  ASSUME ObjectInv, NEW e \in Envs, NEW o \in Objects,
         Crossbind(e, o)
  PROVE  ObjectInv'
BY BindPointerStep DEF Crossbind

LEMMA BindInstanceStep ==
  ASSUME ObjectInv, NEW e \in Envs, BindInstance(e)
  PROVE  ObjectInv'
<1>1. e \in Actors /\ at[e] = "binding"
  BY Members DEF BindInstance
<1> PICK o \in Objects : o = on[e]
  BY <1>1, TypesOf DEF ActorTypeOK
<1>2. HasObject(e, o)
  BY <1>1 DEF ObjectInv, Shape, Positions
<1>3. ActorTypeOK' /\ Moved(e, "idle", NoObject)
  BY <1>1, Resting, TypesOf DEF BindInstance
<1>4. bound' = bound \cup {<<e, o>>}
      /\ UNCHANGED <<life, refs, owns, ref, jsOwned, calls, pending, inside,
                     state, mail, lost, skipped>>
  BY DEF BindInstance
<1>5. CountTypeOK' /\ EntryTypeOK' /\ EnvTypeOK' /\ IsFiniteSet(mail')
  BY <1>4, TypesOf DEF CountTypeOK, EntryTypeOK, EnvTypeOK, ObjectInv
<1>6. CountsAgree'
  <2>1. \A q \in RefCounted : Same(q)
    BY <1>4 DEF Same, OwnersOf, HoldersOf, LettersOf, HasObject
  <2> QED BY <2>1, NothingCounted DEF ObjectInv
<1>7. Positions'
  BY <1>3, <1>4 DEF Moved, ObjectInv, Shape, Positions, HasObject
<1>8. OneEnds'
  BY <1>3 DEF Moved, ObjectInv, Shape, OneEnds, Ending
<1>9. CountedIsAlive' /\ EntriesAlive' /\ DisposedIsEmpty'
  BY <1>4 DEF ObjectInv, Shape, CountedIsAlive, EntriesAlive, DisposedIsEmpty,
         HasObject
<1>10. EntryIsBound'
  BY <1>2, <1>3, <1>4, Members, ZenonT(30)
     DEF Moved, ObjectInv, Shape, EntryIsBound, Together, HasObject
<1> QED BY <1>3, <1>5, <1>6, <1>7, <1>8, <1>9, <1>10, TypePartsNext
        DEF ObjectInv, Shape

(* free_object of an entry: what it does to the entry is the same for all *)
(* objects, what it does to the object depends on whether it is counted.  *)
LEMMA FreeObjectStep ==
  ASSUME ObjectInv, NEW e \in Envs, NEW o \in Objects, Idle(e),
         HasObject(e, o), FreeObject(e, o),
         pending' \subseteq Envs \X RefCounted,
         UNCHANGED <<owns, calls, inside, state, mail, entered, lost>>
  PROVE  ObjectInv'
<1>1. e \in Actors /\ at[e] = "idle"
  BY Members DEF Idle
<1>2. /\ ref' = [ref EXCEPT ![e][o] = "none"]
      /\ jsOwned' = jsOwned \ {<<e, o>>}
      /\ \/ bound' = bound \ {<<e, o>>} /\ skipped' = skipped \ {<<e, o>>}
         \/ bound' = bound /\ skipped' = skipped \cup ({<<e, o>>} \cap bound)
  BY DEF FreeObject, RemoveBinding
<1>3. /\ EntryTypeOK' /\ ref'[e][o] = "none"
      /\ \A f \in Envs, q \in Objects :
           f # e \/ q # o => ref'[f][q] = ref[f][q]
  BY <1>2, TypesOf DEF EntryTypeOK
<1>4. EnvTypeOK' /\ IsFiniteSet(mail')
  BY TypesOf DEF EnvTypeOK, ObjectInv
<1>6. DisposedIsEmpty'
  BY <1>3 DEF ObjectInv, Shape, DisposedIsEmpty, HasObject
<1>7. \A y \in Actors : at[y] = "binding" => ~(y = e /\ on[y] = o)
  BY <1>1
<1>8. (\A f \in Envs : at[f] = "binding" =>
                        at'[f] = "binding" /\ on'[f] = on[f])
      => EntryIsBound'
  <2> SUFFICES ASSUME \A f \in Envs : at[f] = "binding" =>
                                    at'[f] = "binding" /\ on'[f] = on[f]
               PROVE  EntryIsBound'
    OBVIOUS
  <2>1. \A f \in Envs, q \in Objects :
          f # e \/ q # o => /\ HasObject(f, q)' <=> HasObject(f, q)
                            /\ <<f, q>> \in bound' <=> <<f, q>> \in bound
                            /\ <<f, q>> \in skipped => <<f, q>> \in skipped'
    BY <1>2, <1>3 DEF HasObject
  <2>2. Together(e, o)'
    BY <1>2, <1>3 DEF Together, HasObject
  <2>3. EntryIsBound
    BY DEF ObjectInv, Shape
  <2> QED BY <2>1, <2>2, <2>3, EntriesStay
<1>9. CASE o \in RefCounted
  <2>1. refs[o] \in Nat \ {0} /\ life[o] = "alive"
    BY <1>9, EntryHolds DEF Referenced
  <2>2. /\ refs' \in [RefCounted -> Nat] /\ refs'[o] = refs[o] - 1
        /\ \A q \in RefCounted \ {o} : refs'[q] = refs[q]
        /\ life' = life
    BY <1>9, <2>1, TypesOf DEF FreeObject, CountTypeOK
  <2>3. PICK s \in {"last", "down", "idle"} :
          GoOn(e, s, o) /\ (s = "last" => refs'[o] = 0)
    BY <1>9, <2>1, <2>2, AfterType DEF FreeObject
  <2>4. ActorTypeOK' /\ Moved(e, s, o)
    BY <1>1, <2>3, GoingOn, TypesOf DEF Step
  <2>5. CountTypeOK'
    BY <2>2, TypesOf DEF CountTypeOK
  <2>6. CountsAgree'
    <3>1. \A q \in RefCounted \ {o} : Same(q)
      BY <1>3, <2>2, Members
         DEF Same, OwnersOf, HoldersOf, LettersOf, HasObject
    <3>2. HoldersOf(o)' = HoldersOf(o) \ {e} /\ e \in HoldersOf(o)
      BY <1>3 DEF HoldersOf, HasObject
    <3>3. OwnersOf(o)' = OwnersOf(o) /\ LettersOf(o)' = LettersOf(o)
      BY DEF OwnersOf, LettersOf
    <3>4. Cardinality(HoldersOf(o)') = Cardinality(HoldersOf(o)) - 1
      BY <1>9, <3>2, Counted, FS_RemoveElement, ZenonT(30)
    <3> QED BY <1>9, <2>2, <3>1, <3>3, <3>4, Counted, CountsStay
            DEF ObjectInv
  <2>7. Positions'
    BY <1>1, <1>2, <1>3, <1>9, <2>1, <2>2, <2>3, <2>4, TypesOf
       DEF Moved, ObjectInv, Shape, Positions, HasObject, ActorTypeOK
  <2>8. OneEnds'
    <3>1. \A y \in Actors : ~Ending(y, o)
      BY <1>1, <2>1, NotEnding
    <3> QED BY <2>4, <3>1 DEF Moved, ObjectInv, Shape, OneEnds, Ending
  <2>9. CountedIsAlive' /\ EntriesAlive'
    BY <1>1, <1>3, <2>2
       DEF ObjectInv, Shape, CountedIsAlive, EntriesAlive, HasObject
  <2>10. EntryIsBound'
    BY <1>1, <1>8, <2>4, Members DEF Moved
  <2> QED BY <1>3, <1>4, <1>6, <2>4, <2>5, <2>6, <2>7, <2>8, <2>9,
             <2>10, TypePartsNext DEF ObjectInv, Shape
<1>10. CASE o \notin RefCounted
  <2>1. o \in Plain /\ refs' = refs
    BY <1>10 DEF Objects, FreeObject
  <2>4. CountsAgree'
    <3>1. \A q \in RefCounted : Same(q)
      BY <1>3, <1>10, <2>1, Members
         DEF Same, OwnersOf, HoldersOf, LettersOf, HasObject
    <3> QED BY <3>1, NothingCounted DEF ObjectInv
  <2>5. CASE <<e, o>> \in jsOwned
    <3>8. Unused(o) /\ life[o] = "alive"
      BY <2>1, <2>5 DEF FreeObject
    <3>9. \A y \in Actors : ~Ending(y, o)
      BY <1>10, <3>8, NotEnding
    <3>1. Go(e, "dying", o) /\ life' = [life EXCEPT ![o] = "dying"]
      BY <1>10, <2>5 DEF FreeObject
    <3>2. ActorTypeOK' /\ Moved(e, "dying", o)
      BY <1>1, <3>1, Going, TypesOf DEF Step
    <3>3. CountTypeOK' /\ life'[o] = "dying"
          /\ \A q \in Objects \ {o} : life'[q] = life[q]
      BY <2>1, <3>1, TypesOf DEF CountTypeOK
    <3>4. Positions'
      BY <1>1, <1>2, <1>3, <2>1, <3>8, <3>9, <3>2, <3>3, TypesOf
         DEF Unused, Moved, ObjectInv, Shape, Positions, Ending, HasObject,
             ActorTypeOK
    <3>5. OneEnds'
      BY <3>9, <3>2 DEF Moved, ObjectInv, Shape, OneEnds, Ending
    <3>6. CountedIsAlive' /\ EntriesAlive'
      BY <1>3, <1>10, <2>1, <3>3, Members
         DEF ObjectInv, Shape, CountedIsAlive, EntriesAlive, HasObject
    <3>7. EntryIsBound'
      BY <1>1, <1>8, <3>2, Members DEF Moved
    <3> QED BY <1>3, <1>4, <1>6, <2>4, <3>2, <3>3, <3>4, <3>5, <3>6,
               <3>7, TypePartsNext DEF ObjectInv, Shape
  <2>6. CASE <<e, o>> \notin jsOwned
    <3>1. UNCHANGED <<life, at, on>>
      BY <1>10, <2>6 DEF FreeObject
    <3>2. ActorTypeOK' /\ CountTypeOK'
      BY <2>1, <3>1, TypesOf DEF ActorTypeOK, CountTypeOK
    <3>3. Positions'
      BY <1>1, <1>2, <1>3, <2>1, <3>1, TypesOf
         DEF ObjectInv, Shape, Positions, HasObject, ActorTypeOK
    <3>4. OneEnds' /\ CountedIsAlive' /\ EntriesAlive'
      BY <1>3, <2>1, <3>1
         DEF ObjectInv, Shape, OneEnds, Ending, CountedIsAlive, EntriesAlive,
             HasObject
    <3>5. EntryIsBound'
      BY <1>8, <3>1
    <3> QED BY <1>3, <1>4, <1>6, <2>4, <3>2, <3>3, <3>4, <3>5,
               TypePartsNext DEF ObjectInv, Shape
  <2> QED BY <2>5, <2>6
<1> QED BY <1>9, <1>10

LEMMA DisposeObjectStep ==
  ASSUME ObjectInv, NEW e \in Envs, NEW o \in Objects,
         DisposeObject(e, o)
  PROVE  ObjectInv'
<1>1. pending' \subseteq Envs \X RefCounted
  BY TypesOf DEF DisposeObject, EntryTypeOK
<1> QED BY <1>1, FreeObjectStep DEF DisposeObject

(* Nothing changes but handles, not whether they are there, what is still *)
(* to come, and environments on their way to the end.                     *)
LEMMA QuietStep ==
  ASSUME ObjectInv, EnvTypeOK',
         ref' \in [Envs -> [Objects -> {"none", "empty", "weak", "strong"}]],
         \A e \in Envs, o \in Objects : HasObject(e, o)' <=> HasObject(e, o),
         pending' \subseteq Envs \X RefCounted',
         DisposedIsEmpty',
         UNCHANGED <<life, refs, owns, jsOwned, bound, mail, at, on, entered,
                     lost, skipped>>
  PROVE  ObjectInv'
<1>1. ActorTypeOK' /\ CountTypeOK' /\ EntryTypeOK' /\ IsFiniteSet(mail')
  BY TypesOf DEF ActorTypeOK, CountTypeOK, EntryTypeOK, ObjectInv
<1>2. CountsAgree'
  <2>1. \A q \in RefCounted : Same(q)
    BY Members DEF Same, OwnersOf, HoldersOf, LettersOf
  <2> QED BY <2>1, NothingCounted DEF ObjectInv
<1>3. Positions'
  BY TypesOf
     DEF ObjectInv, Shape, Positions, ActorTypeOK, HasObject
<1>4. OneEnds' /\ CountedIsAlive'
  BY DEF ObjectInv, Shape, OneEnds, Ending, CountedIsAlive
<1>5. EntryIsBound' /\ EntriesAlive'
  BY DEF ObjectInv, Shape, EntryIsBound, Together, EntriesAlive, HasObject
<1> QED BY <1>1, <1>2, <1>3, <1>4, <1>5, TypePartsNext DEF ObjectInv, Shape

LEMMA CollectStep ==
  ASSUME ObjectInv, NEW e \in Envs, NEW o \in RefCounted,
         Collect(e, o)
  PROVE  ObjectInv'
<1>1. o \in Objects /\ ref[e][o] = "weak" /\ Idle(e) /\ HasObject(e, o)
  BY Members DEF Collect, HasObject
<1>2. UNCHANGED <<owns, calls, inside, state, mail, entered, lost>>
  BY DEF Collect
<1>3. ASSUME ref' = [ref EXCEPT ![e][o] = "empty"],
             pending' = IF state[e] = "live" THEN pending \cup {<<e, o>>}
                        ELSE pending,
             UNCHANGED <<life, refs, jsOwned, bound, at, on, skipped>>
      PROVE  ObjectInv'
  <2>1. /\ ref' \in [Envs ->
                     [Objects -> {"none", "empty", "weak", "strong"}]]
        /\ ref'[e][o] = "empty"
        /\ \A f \in Envs, q \in Objects :
             f # e \/ q # o => ref'[f][q] = ref[f][q]
    BY <1>1, <1>3, TypesOf DEF EntryTypeOK
  <2>2. \A f \in Envs, q \in Objects : HasObject(f, q)' <=> HasObject(f, q)
    BY <1>1, <2>1 DEF HasObject
  <2>3. pending' \subseteq Envs \X RefCounted
    BY <1>3, TypesOf DEF EntryTypeOK
  <2>5. DisposedIsEmpty'
    BY <1>2, <2>2 DEF ObjectInv, Shape, DisposedIsEmpty, HasObject
  <2>6. EnvTypeOK'
    BY <1>2, TypesOf DEF EnvTypeOK
  <2> QED BY <1>2, <1>3, <2>1, <2>2, <2>3, <2>5, <2>6, QuietStep
<1>4. ASSUME state[e] = "live", FreeObject(e, o), UNCHANGED pending
      PROVE  ObjectInv'
  <2>1. pending' \subseteq Envs \X RefCounted
    BY <1>4, TypesOf DEF EntryTypeOK
  <2> QED BY <1>1, <1>2, <1>4, <2>1, FreeObjectStep
<1> QED BY <1>3, <1>4 DEF Collect

LEMMA SecondPassStep ==
  ASSUME ObjectInv, NEW e \in Envs, NEW o \in RefCounted,
         SecondPass(e, o)
  PROVE  ObjectInv'
<1>1. o \in Objects /\ Idle(e) /\ pending' = pending \ {<<e, o>>}
  BY Members DEF SecondPass
<1>2. UNCHANGED <<owns, calls, inside, state, mail, entered, lost>>
  BY DEF SecondPass
<1>3. CASE state[e] = "live" /\ HasObject(e, o)
  <2>1. FreeObject(e, o)
    BY <1>3 DEF SecondPass
  <2>2. pending' \subseteq Envs \X RefCounted
    BY <1>1, TypesOf DEF EntryTypeOK
  <2> QED BY <1>1, <1>2, <1>3, <2>1, <2>2, FreeObjectStep
<1>4. CASE ~(state[e] = "live" /\ HasObject(e, o))
  <2>1. UNCHANGED <<life, refs, ref, jsOwned, bound, at, on, skipped>>
    BY <1>4 DEF SecondPass
  <2>3. \A f \in Envs, q \in Objects : HasObject(f, q)' <=> HasObject(f, q)
    BY <2>1 DEF HasObject
  <2>4. DisposedIsEmpty' /\ EnvTypeOK'
    BY <1>2, <2>1, TypesOf
       DEF ObjectInv, Shape, DisposedIsEmpty, HasObject, EnvTypeOK
  <2>5. pending' \subseteq Envs \X RefCounted
        /\ ref' \in [Envs ->
                     [Objects -> {"none", "empty", "weak", "strong"}]]
    BY <1>1, <2>1, TypesOf DEF EntryTypeOK
  <2> QED BY <1>2, <2>1, <2>3, <2>4, <2>5, QuietStep
<1> QED BY <1>3, <1>4

LEMMA ExecAsyncCallStep ==
  ASSUME ObjectInv, NEW e \in Envs, ExecAsyncCall(e)
  PROVE  ObjectInv'
<1>1. calls \in [Envs -> Seq(Call)] /\ calls[e] # <<>>
  BY TypesOf DEF EnvTypeOK, ExecAsyncCall
<1>2. Head(calls[e]) \in Call /\ Tail(calls[e]) \in Seq(Call)
  BY <1>1
<1>3. PICK c \in Call : c = Head(calls[e])
  BY <1>2
<1>4. c.obj \in RefCounted /\ c.obj \in Objects
  BY Members DEF Call
<1>5. ref' = [ref EXCEPT ![e][c.obj] = Settled(e, c.obj, c.up)]
  BY <1>3 DEF ExecAsyncCall
<1>6. /\ ref' \in [Envs -> [Objects -> {"none", "empty", "weak", "strong"}]]
      /\ \A f \in Envs, q \in Objects :
           /\ ref'[f][q] = "none" <=> ref[f][q] = "none"
           /\ ref'[f][q] = "empty" <=> ref[f][q] = "empty"
  BY <1>4, <1>5, SettledKeeps
<1>7. \A f \in Envs, q \in Objects : HasObject(f, q)' <=> HasObject(f, q)
  BY <1>6 DEF HasObject
<1>8. UNCHANGED <<life, refs, owns, jsOwned, bound, pending, inside, state,
                  mail, at, on, entered, lost, skipped>>
  BY DEF ExecAsyncCall
<1>9. EnvTypeOK'
  <2>1. calls' \in [Envs -> Seq(Call)]
    BY <1>1, <1>2 DEF ExecAsyncCall
  <2> QED BY <1>8, <2>1, TypesOf DEF EnvTypeOK
<1>10. DisposedIsEmpty'
  BY <1>6, <1>8, Members
     DEF ObjectInv, Shape, DisposedIsEmpty, HasObject
<1>11. pending' \subseteq Envs \X RefCounted
  BY <1>8, TypesOf DEF EntryTypeOK
<1> QED BY <1>6, <1>7, <1>8, <1>9, <1>10, <1>11, QuietStep

(* Of dispose(), what concerns the environment alone. *)
LEMMA StateStep ==
  ASSUME ObjectInv, NEW e \in Envs,
         NEW s \in {"disposing", "cleaning", "disposed"},
         state' = [state EXCEPT ![e] = s], pending' \subseteq pending,
         s = "disposed" => \A o \in Objects : ~HasObject(e, o),
         UNCHANGED <<life, refs, owns, ref, jsOwned, bound, calls, inside,
                     mail, at, on, entered, lost, skipped>>
  PROVE  ObjectInv'
<1>1. EnvTypeOK' /\ state'[e] = s
      /\ \A f \in Envs \ {e} : state'[f] = state[f]
  BY TypesOf DEF EnvTypeOK
<1>2. pending' \subseteq Envs \X RefCounted
      /\ ref' \in [Envs -> [Objects -> {"none", "empty", "weak", "strong"}]]
  BY TypesOf DEF EntryTypeOK
<1>4. DisposedIsEmpty'
  BY <1>1 DEF ObjectInv, Shape, DisposedIsEmpty, HasObject
<1>5. \A f \in Envs, q \in Objects : HasObject(f, q)' <=> HasObject(f, q)
  BY DEF HasObject
<1> QED BY <1>1, <1>2, <1>4, <1>5, QuietStep

LEMMA DisposeStep ==
  ASSUME ObjectInv, NEW e \in Envs,
         Dispose(e) \/ StartCleanup(e) \/ DisposeDone(e)
  PROVE  ObjectInv'
<1>1. CASE Dispose(e)
  BY <1>1, StateStep DEF Dispose
<1>2. CASE StartCleanup(e)
  BY <1>2, StateStep DEF StartCleanup
<1>3. CASE DisposeDone(e)
  BY <1>3, StateStep DEF DisposeDone
<1> QED BY <1>1, <1>2, <1>3

(* Whose free_callback the sender waits for is nobody's to delete. *)
LEMMA TransferOutStep ==
  ASSUME ObjectInv, NEW e \in Envs, NEW o \in Objects, TransferOut(e, o)
  PROVE  ObjectInv'
<1>1. /\ e \in Actors /\ at[e] = "idle" /\ HasObject(e, o)
      /\ life[o] = "alive"
      /\ o \in RefCounted => <<e, o>> \in owns
  BY Members DEF TransferOut, Live, Idle, TryGetObject, HasObject
<1>2. /\ inside' = [inside EXCEPT ![e] = TRUE]
      /\ UNCHANGED <<life, refs, owns, ref, jsOwned, bound, calls, pending,
                     state, mail, entered, lost, skipped>>
  BY DEF TransferOut
<1>3. ActorTypeOK' /\ Moved(e, "giving", o)
  <2>1. Go(e, "giving", o)
    BY DEF TransferOut
  <2> QED BY <1>1, <1>2, <2>1, Going, TypesOf DEF Step
<1>4. CountTypeOK' /\ EntryTypeOK' /\ EnvTypeOK' /\ IsFiniteSet(mail')
  BY <1>2, TypesOf DEF CountTypeOK, EntryTypeOK, EnvTypeOK, ObjectInv
<1>5. CountsAgree'
  <2>1. \A q \in RefCounted : Same(q)
    BY <1>2 DEF Same, OwnersOf, HoldersOf, LettersOf, HasObject
  <2> QED BY <2>1, NothingCounted DEF ObjectInv
<1>6. Positions'
  <2>1. Positions
    BY DEF ObjectInv, Shape
  <2> SUFFICES ASSUME NEW y \in Actors
               PROVE  /\ at'[y] \in {"up", "down", "last"} =>
                           on'[y] \in RefCounted
                      /\ at'[y] = "last" =>
                           life'[on'[y]] = "alive" /\ refs'[on'[y]] = 0
                      /\ at'[y] \in {"dying", "freeing", "stuck"} =>
                           life'[on'[y]] = "dying"
                      /\ at'[y] \in {"binding", "giving"} =>
                           /\ y \in Envs /\ HasObject(y, on[y])'
                           /\ life'[on'[y]] = "alive"
                      /\ at'[y] = "giving" /\ on'[y] \in RefCounted =>
                           <<y, on'[y]>> \in owns'
    BY DEF Positions, HasObject
  <2>2. CASE y = e
    BY <1>1, <1>2, <1>3, <2>2 DEF Moved, HasObject
  <2>3. CASE y # e
    BY <1>2, <1>3, <2>1, <2>3 DEF Moved, Positions, HasObject
  <2> QED BY <2>2, <2>3
<1>7. OneEnds'
  BY <1>3 DEF Moved, ObjectInv, Shape, OneEnds, Ending
<1>8. CountedIsAlive' /\ EntriesAlive' /\ DisposedIsEmpty'
  BY <1>2 DEF ObjectInv, Shape, CountedIsAlive, EntriesAlive, DisposedIsEmpty,
              HasObject
<1>9. EntryIsBound'
  BY <1>1, <1>2, <1>3, Members
     DEF Moved, ObjectInv, Shape, EntryIsBound, Together, HasObject
<1> QED BY <1>3, <1>4, <1>5, <1>6, <1>7, <1>8, <1>9, TypePartsNext
        DEF ObjectInv, Shape

(* The entry goes, sent or not. *)
LEMMA GivenAway ==
  ASSUME ObjectInv, NEW e \in Envs, NEW o \in Objects, at[e] = "giving",
         o = on[e], NEW s \in {"idle", "blocked"}, Moved(e, s, o),
         ref' = [ref EXCEPT ![e][o] = "none"],
         \/ bound' = bound \ {<<e, o>>} /\ skipped' = skipped \ {<<e, o>>}
         \/ bound' = bound /\ skipped' = skipped \cup {<<e, o>>},
         owns \ {<<e, o>>} \subseteq owns',
         UNCHANGED <<life, refs, state>>
  PROVE  Shape'
<1>1. e \in Actors
  BY Members
<1>2. /\ ref'[e][o] = "none"
      /\ \A g \in Envs, q \in Objects :
           g # e \/ q # o => ref'[g][q] = ref[g][q]
  BY TypesOf DEF EntryTypeOK
<1>3. Positions'
  BY <1>1, <1>2, TypesOf
     DEF Moved, ObjectInv, Shape, Positions, HasObject, ActorTypeOK
<1>4. OneEnds'
  BY <1>1 DEF Moved, ObjectInv, Shape, OneEnds, Ending
<1>5. CountedIsAlive' /\ EntriesAlive' /\ DisposedIsEmpty'
  BY <1>2 DEF ObjectInv, Shape, CountedIsAlive, EntriesAlive, DisposedIsEmpty,
              HasObject
<1>6. EntryIsBound'
  <2>1. \A g \in Envs :
          at[g] = "binding" => at'[g] = "binding" /\ on'[g] = on[g]
    BY Members DEF Moved
  <2>2. \A g \in Envs, q \in Objects :
          g # e \/ q # o =>
            /\ HasObject(g, q)' <=> HasObject(g, q)
            /\ <<g, q>> \in bound' <=> <<g, q>> \in bound
            /\ <<g, q>> \in skipped => <<g, q>> \in skipped'
    BY <1>2 DEF HasObject
  <2>3. Together(e, o)'
    BY <1>2 DEF Together, HasObject
  <2>4. EntryIsBound
    BY DEF ObjectInv, Shape
  <2> QED BY <2>1, <2>2, <2>3, <2>4, EntriesStay
<1> QED BY <1>3, <1>4, <1>5, <1>6 DEF Shape

(* Two references of the sender, that of its entry and one that it owns, go *)
(* with the message.                                                        *)
LEMMA TransferredStep ==
  ASSUME ObjectInv, NEW e \in Envs, NEW f \in Envs, Transferred(e, f)
  PROVE  ObjectInv'
<1>1. e \in Actors /\ at[e] = "giving"
  BY Members DEF Transferred
<1> PICK o \in Objects : o = on[e]
  BY <1>1, TypesOf DEF ActorTypeOK
<1> DEFINE m == [from |-> e, to |-> f, obj |-> o,
                 owned |-> <<e, o>> \in jsOwned]
<1>2. HasObject(e, o) /\ (o \in RefCounted => <<e, o>> \in owns)
  BY <1>1 DEF ObjectInv, Shape, Positions
<1>3. /\ mail' = mail \cup {m} /\ bound' = bound \ {<<e, o>>}
      /\ skipped' = skipped \ {<<e, o>>} /\ jsOwned' = jsOwned \ {<<e, o>>}
      /\ ref' = [ref EXCEPT ![e][o] = "none"] /\ owns' = owns \ {<<e, o>>}
      /\ inside' = [inside EXCEPT ![e] = FALSE]
      /\ UNCHANGED <<life, refs, calls, pending, state, entered, lost>>
  BY DEF Transferred
<1>4. m \in Letter /\ m \notin mail
  <2>1. m \in Letter
    BY DEF Letter
  <2>2. m \notin mail
    BY DEF Transferred
  <2> QED BY <2>1, <2>2
<1>5. ActorTypeOK' /\ Moved(e, "idle", o)
  <2>1. Rest(e)
    BY DEF Transferred
  <2> QED BY <1>1, <1>3, <2>1, Resting, TypesOf DEF Moved
<1>6. Shape'
  BY <1>1, <1>3, <1>5, GivenAway
<1>7. /\ EntryTypeOK' /\ ref'[e][o] = "none"
      /\ \A g \in Envs, q \in Objects :
           g # e \/ q # o => ref'[g][q] = ref[g][q]
  BY <1>3, TypesOf DEF EntryTypeOK
<1>8. EnvTypeOK'
  BY <1>3, TypesOf DEF EnvTypeOK
<1>9. CountTypeOK'
  BY <1>3, <1>4, TypesOf DEF CountTypeOK
<1>10. IsFiniteSet(mail')
  BY <1>3, FS_AddElement DEF ObjectInv
<1>11. CountsAgree'
  <2>1. \A q \in RefCounted \ {o} :
          LettersOf(q)' = LettersOf(q) /\ OwnersOf(q)' = OwnersOf(q)
    BY <1>3 DEF LettersOf, OwnersOf
  <2>2. \A q \in RefCounted \ {o} : Same(q)
    BY <1>3, <1>7, <2>1, Members DEF Same, HoldersOf, HasObject
  <2>3. ASSUME o \in RefCounted
        PROVE  refs'[o] = Cardinality(OwnersOf(o)')
                          + Cardinality(HoldersOf(o)')
                          + 2 * Cardinality(LettersOf(o)') + lost'[o]
    <3>1. OwnersOf(o)' = OwnersOf(o) \ {e} /\ e \in OwnersOf(o)
      BY <1>1, <1>2, <1>3, <2>3 DEF OwnersOf
    <3>2. HoldersOf(o)' = HoldersOf(o) \ {e} /\ e \in HoldersOf(o)
      BY <1>2, <1>7 DEF HoldersOf, HasObject
    <3>3. LettersOf(o)' = LettersOf(o) \cup {m} /\ m \notin LettersOf(o)
      BY <1>3, <1>4 DEF LettersOf
    <3>4. Cardinality(HoldersOf(o)') = Cardinality(HoldersOf(o)) - 1
      BY <2>3, <3>2, Counted, FS_RemoveElement, ZenonT(30)
    <3>5. Cardinality(LettersOf(o)') = Cardinality(LettersOf(o)) + 1
      <4> HIDE DEF m
      <4>1. IsFiniteSet(LettersOf(o))
        BY <2>3, Counted
      <4> QED BY <3>3, <4>1, FS_AddElement
    <3>6. Cardinality(OwnersOf(o)') = Cardinality(OwnersOf(o)) - 1
      BY <2>3, <3>1, Counted, FS_RemoveElement, ZenonT(30)
    <3> QED BY <1>3, <2>3, <3>4, <3>5, <3>6, Counted
  <2> QED BY <2>2, <2>3, CountsStay DEF ObjectInv
<1> QED BY <1>5, <1>6, <1>7, <1>8, <1>9, <1>10, <1>11, TypePartsNext
        DEF ObjectInv

LEMMA TransferBlocksStep ==
  ASSUME ObjectInv, NEW e \in Envs, TransferBlocks(e)
  PROVE  ObjectInv'
<1>1. e \in Actors /\ at[e] = "giving"
  BY Members DEF TransferBlocks
<1> PICK o \in Objects : o = on[e]
  BY <1>1, TypesOf DEF ActorTypeOK
<1>2. HasObject(e, o)
  BY <1>1 DEF ObjectInv, Shape, Positions
<1>3. /\ skipped' = skipped \cup {<<e, o>>} /\ jsOwned' = jsOwned \ {<<e, o>>}
      /\ ref' = [ref EXCEPT ![e][o] = "none"]
      /\ UNCHANGED <<life, refs, owns, bound, calls, pending, inside, state,
                     mail, entered>>
  BY DEF TransferBlocks
<1>4. ActorTypeOK' /\ Moved(e, "blocked", o)
  <2>1. Go(e, "blocked", o)
    BY DEF TransferBlocks
  <2> QED BY <1>1, <1>3, <2>1, Going, TypesOf DEF Step
<1>5. Shape'
  BY <1>1, <1>3, <1>4, GivenAway
<1>6. /\ EntryTypeOK' /\ ref'[e][o] = "none"
      /\ \A g \in Envs, q \in Objects :
           g # e \/ q # o => ref'[g][q] = ref[g][q]
  BY <1>3, TypesOf DEF EntryTypeOK
<1>7. EnvTypeOK' /\ IsFiniteSet(mail')
  BY <1>3, TypesOf DEF EnvTypeOK, ObjectInv
<1>8. /\ lost' \in [RefCounted -> Nat]
      /\ \A q \in RefCounted \ {o} : lost'[q] = lost[q]
      /\ o \in RefCounted => lost'[o] = lost[o] + 1
  <2>1. lost \in [RefCounted -> Nat]
    BY TypesOf DEF CountTypeOK
  <2>2. lost' = IF o \in RefCounted THEN [lost EXCEPT ![o] = @ + 1] ELSE lost
    BY DEF TransferBlocks
  <2> QED BY <2>1, <2>2
<1>9. CountTypeOK'
  BY <1>3, <1>8, TypesOf DEF CountTypeOK
<1>10. CountsAgree'
  <2>1. \A q \in RefCounted \ {o} : Same(q)
    BY <1>3, <1>6, <1>8, Members
       DEF Same, OwnersOf, LettersOf, HoldersOf, HasObject
  <2>2. ASSUME o \in RefCounted
        PROVE  refs'[o] = Cardinality(OwnersOf(o)')
                          + Cardinality(HoldersOf(o)')
                          + 2 * Cardinality(LettersOf(o)') + lost'[o]
    <3>1. OwnersOf(o)' = OwnersOf(o) /\ LettersOf(o)' = LettersOf(o)
      BY <1>3 DEF OwnersOf, LettersOf
    <3>2. HoldersOf(o)' = HoldersOf(o) \ {e} /\ e \in HoldersOf(o)
      BY <1>2, <1>6 DEF HoldersOf, HasObject
    <3>3. Cardinality(HoldersOf(o)') = Cardinality(HoldersOf(o)) - 1
      BY <2>2, <3>2, Counted, FS_RemoveElement, ZenonT(30)
    <3> QED BY <1>3, <1>8, <2>2, <3>1, <3>3, Counted
  <2> QED BY <2>1, <2>2, CountsStay DEF ObjectInv
<1> QED BY <1>4, <1>5, <1>6, <1>7, <1>9, <1>10, TypePartsNext DEF ObjectInv

(* The message gives up two references: one goes to the script that handles *)
(* it, the other to the entry, or is dropped if there was one.              *)
LEMMA TransferInStep ==
  ASSUME ObjectInv, NEW f \in Envs, NEW m \in mail, TransferIn(f, m)
  PROVE  ObjectInv'
<1> PICK o \in Objects : o = m.obj
  BY TypesOf DEF CountTypeOK, Letter
<1>1. /\ f \in Actors /\ at[f] = "idle" /\ state[f] = "live"
      /\ life[o] = "alive" /\ <<f, o>> \notin owns
  BY Members DEF TransferIn, Live, Idle
<1>2. /\ mail' = mail \ {m}
      /\ owns' = IF o \in RefCounted THEN owns \cup {<<f, o>>} ELSE owns
      /\ bound' = bound \cup {<<f, o>>}
      /\ jsOwned' \subseteq jsOwned \cup {<<f, o>>}
      /\ UNCHANGED <<life, calls, pending, inside, state, at, on, entered, lost,
                     skipped>>
  BY DEF TransferIn
<1>3. o \in RefCounted => refs[o] \in Nat \ {0}
  BY LetterHolds DEF Referenced
<1>4. /\ refs' \in [RefCounted -> Nat]
      /\ \A q \in RefCounted \ {o} : refs'[q] = refs[q]
      /\ o \in RefCounted =>
           refs'[o] = IF HasObject(f, o) THEN refs[o] - 1 ELSE refs[o]
  <2>1. refs \in [RefCounted -> Nat]
    BY TypesOf DEF CountTypeOK
  <2>2. refs' = IF o \in RefCounted /\ HasObject(f, o)
                  THEN [refs EXCEPT ![o] = @ - 1] ELSE refs
    BY DEF TransferIn
  <2>3. CASE o \in RefCounted /\ HasObject(f, o)
    BY <1>3, <2>1, <2>2, <2>3
  <2>4. CASE ~(o \in RefCounted /\ HasObject(f, o))
    BY <2>1, <2>2, <2>4
  <2> QED BY <2>3, <2>4
<1>5. /\ ref' \in [Envs -> [Objects -> {"none", "empty", "weak", "strong"}]]
      /\ ref'[f][o] = IF HasObject(f, o) THEN ref[f][o] ELSE "strong"
      /\ \A g \in Envs, q \in Objects :
           g # f \/ q # o => ref'[g][q] = ref[g][q]
  <2>1. ref \in [Envs -> [Objects -> {"none", "empty", "weak", "strong"}]]
    BY TypesOf DEF EntryTypeOK
  <2>2. ref' = IF HasObject(f, o) THEN ref
               ELSE [ref EXCEPT ![f][o] = "strong"]
    BY DEF TransferIn
  <2>3. CASE HasObject(f, o)
    BY <2>1, <2>2, <2>3
  <2>4. CASE ~HasObject(f, o)
    BY <2>1, <2>2, <2>4
  <2> QED BY <2>3, <2>4
<1>6. HasObject(f, o)'
  BY <1>5 DEF HasObject
<1>7. EntryTypeOK'
  BY <1>2, <1>5, TypesOf DEF EntryTypeOK
<1>8. ActorTypeOK' /\ EnvTypeOK'
  BY <1>2, TypesOf DEF ActorTypeOK, EnvTypeOK
<1>9. CountTypeOK'
  BY <1>1, <1>2, <1>4, TypesOf DEF CountTypeOK
<1>10. IsFiniteSet(mail')
  BY <1>2, FS_RemoveElement DEF ObjectInv
<1>11. CountsAgree'
  <2>1. \A q \in RefCounted \ {o} :
          /\ LettersOf(q)' = LettersOf(q)
          /\ OwnersOf(q)' = OwnersOf(q)
    BY <1>2 DEF LettersOf, OwnersOf
  <2>2. \A q \in RefCounted \ {o} : HoldersOf(q)' = HoldersOf(q)
    BY <1>5, Members DEF HoldersOf, HasObject
  <2>3. \A q \in RefCounted \ {o} : Same(q)
    BY <1>2, <1>4, <2>1, <2>2 DEF Same
  <2>4. ASSUME o \in RefCounted
        PROVE  refs'[o] = Cardinality(OwnersOf(o)')
                          + Cardinality(HoldersOf(o)')
                          + 2 * Cardinality(LettersOf(o)') + lost'[o]
    <3>1. OwnersOf(o)' = OwnersOf(o) \cup {f} /\ f \notin OwnersOf(o)
      BY <1>1, <1>2, <2>4 DEF OwnersOf
    <3>2. LettersOf(o)' = LettersOf(o) \ {m} /\ m \in LettersOf(o)
      BY <1>2 DEF LettersOf
    <3>3. Cardinality(OwnersOf(o)') = Cardinality(OwnersOf(o)) + 1
      <4>1. IsFiniteSet(OwnersOf(o))
        BY <2>4, Counted
      <4> QED BY <3>1, <4>1, FS_AddElement
    <3>4. Cardinality(LettersOf(o)') = Cardinality(LettersOf(o)) - 1
      <4>1. IsFiniteSet(LettersOf(o))
        BY <2>4, Counted
      <4> QED BY <3>2, <4>1, FS_RemoveElement
    <3>5. CASE HasObject(f, o)
      <4>1. HoldersOf(o)' = HoldersOf(o)
        BY <1>5, <1>6, <3>5 DEF HoldersOf, HasObject
      <4> QED BY <1>2, <1>4, <2>4, <3>3, <3>4, <3>5, <4>1, Counted
    <3>6. CASE ~HasObject(f, o)
      <4>1. HoldersOf(o)' = HoldersOf(o) \cup {f} /\ f \notin HoldersOf(o)
        BY <1>5, <1>6, <3>6 DEF HoldersOf, HasObject
      <4>2. Cardinality(HoldersOf(o)') = Cardinality(HoldersOf(o)) + 1
        <5>1. IsFiniteSet(HoldersOf(o))
          BY <2>4, Counted
        <5> QED BY <4>1, <5>1, FS_AddElement
      <4> QED BY <1>2, <1>4, <2>4, <3>3, <3>4, <3>6, <4>2, Counted
    <3> QED BY <3>5, <3>6
  <2> QED BY <2>3, <2>4, CountsStay DEF ObjectInv
<1>12. Positions'
  <2>1. \A y \in Actors : at[y] = "last" => on[y] # o
    BY <1>3 DEF ObjectInv, Shape, Positions
  <2> QED BY <1>1, <1>2, <1>4, <1>5, <2>1, TypesOf
          DEF ObjectInv, Shape, Positions, HasObject, ActorTypeOK
<1>13. OneEnds'
  BY <1>2 DEF ObjectInv, Shape, OneEnds, Ending
<1>14. CountedIsAlive' /\ EntriesAlive' /\ DisposedIsEmpty'
  <2>1. CountedIsAlive'
    BY <1>1, <1>2, <1>4 DEF ObjectInv, Shape, CountedIsAlive
  <2>2. EntriesAlive'
    BY <1>1, <1>2, <1>4, <1>5 DEF ObjectInv, Shape, EntriesAlive, HasObject
  <2>3. DisposedIsEmpty'
    BY <1>1, <1>2, <1>5 DEF ObjectInv, Shape, DisposedIsEmpty, HasObject
  <2> QED BY <2>1, <2>2, <2>3
<1>16. EntryIsBound'
  <2>1. \A g \in Envs :
          at[g] = "binding" => at'[g] = "binding" /\ on'[g] = on[g]
    BY <1>2
  <2>2. \A g \in Envs, q \in Objects :
          g # f \/ q # o =>
            /\ HasObject(g, q)' <=> HasObject(g, q)
            /\ <<g, q>> \in bound' <=> <<g, q>> \in bound
            /\ <<g, q>> \in skipped => <<g, q>> \in skipped'
    BY <1>2, <1>5 DEF HasObject
  <2>3. Together(f, o)'
    BY <1>2, <1>6 DEF Together
  <2>4. EntryIsBound
    BY DEF ObjectInv, Shape
  <2> QED BY <2>1, <2>2, <2>3, <2>4, EntriesStay
<1> QED BY <1>7, <1>8, <1>9, <1>10, <1>11, <1>12, <1>13, <1>14, <1>16,
           TypePartsNext DEF ObjectInv, Shape

-----------------------------------------------------------------------------
LEMMA InvInit == Init => ObjectInv
<1> SUFFICES ASSUME Init PROVE ObjectInv
  OBVIOUS
<1>1. ActorTypeOK /\ CountTypeOK /\ EntryTypeOK /\ EnvTypeOK
  BY DEF Init, ActorTypeOK, CountTypeOK, EntryTypeOK, EnvTypeOK, Step
<1>2. IsFiniteSet(mail)
  BY FS_EmptySet DEF Init
<1>3. CountsAgree
  <2> SUFFICES ASSUME NEW o \in RefCounted
               PROVE  refs[o] = Cardinality(OwnersOf(o))
                                + Cardinality(HoldersOf(o))
                                + 2 * Cardinality(LettersOf(o)) + lost[o]
    BY DEF CountsAgree
  <2>1. /\ OwnersOf(o) = {} /\ HoldersOf(o) = {} /\ LettersOf(o) = {}
        /\ refs[o] = 0 /\ lost[o] = 0
    BY Members DEF Init, OwnersOf, HoldersOf, LettersOf, HasObject
  <2> QED BY <2>1, FS_EmptySet
<1>4. Positions /\ OneEnds /\ CountedIsAlive
  BY DEF Init, Positions, OneEnds, Ending, CountedIsAlive
<1>5. EntryIsBound /\ EntriesAlive /\ DisposedIsEmpty
  BY DEF Init, EntryIsBound, Together, EntriesAlive, DisposedIsEmpty,
         HasObject
<1> QED BY <1>1, <1>2, <1>3, <1>4, <1>5, TypeParts DEF ObjectInv, Shape

LEMMA InvStep ==
  ASSUME ObjectInv, [Next]_vars
  PROVE  ObjectInv'
<1>1. ASSUME NEW x \in Actors, ThreadStep(x) PROVE ObjectInv'
  <2>1. ASSUME NEW o \in Objects, Allocate(x, o) PROVE ObjectInv'
    BY <2>1, AllocateStep
  <2>2. ASSUME NEW o \in RefCounted, Reference(x, o) \/ Unreference(x, o)
        PROVE  ObjectInv'
    BY <2>2, ReferenceStep, UnreferenceStep
  <2>3. ASSUME NEW o \in Plain, Free(x, o) PROVE ObjectInv'
    BY <2>3, FreeStep
  <2>4. CASE ReferenceCallback(x)
    BY <2>4, ReferenceCallbackStep
  <2>5. ASSUME NEW e \in Envs, FreeCallback(x, e) \/ LeaveFreeCallback(x, e)
        PROVE  ObjectInv'
    BY <2>5, FreeCallbackStep, LeaveFreeCallbackStep
  <2>6. CASE Deleted(x)
    BY <2>6, DeletedStep
  <2>7. ASSUME NEW m \in mail, DropMessage(x, m) PROVE ObjectInv'
    BY <2>7, DropMessageStep
  <2> QED BY <1>1, <2>1, <2>2, <2>3, <2>4, <2>5, <2>6, <2>7 DEF ThreadStep
<1>2. ASSUME NEW e \in Envs, EnvStep(e) PROVE ObjectInv'
  <2>1. ASSUME NEW o \in Objects, NEW owned \in BOOLEAN, Bind(e, o, owned)
        PROVE  ObjectInv'
    BY <2>1, BindStep
  <2>2. CASE BindInstance(e)
    BY <2>2, BindInstanceStep
  <2>3. ASSUME NEW o \in RefCounted, Collect(e, o) \/ SecondPass(e, o)
        PROVE  ObjectInv'
    BY <2>3, CollectStep, SecondPassStep
  <2>4. ASSUME NEW o \in Objects, Crossbind(e, o) \/ DisposeObject(e, o)
        PROVE  ObjectInv'
    BY <2>4, CrossbindStep, DisposeObjectStep
  <2>5. CASE ExecAsyncCall(e)
    BY <2>5, ExecAsyncCallStep
  <2>6. CASE Dispose(e) \/ StartCleanup(e) \/ DisposeDone(e)
    BY <2>6, DisposeStep
  <2>7. ASSUME NEW o \in Objects, TransferOut(e, o) PROVE ObjectInv'
    BY <2>7, TransferOutStep
  <2>10. ASSUME NEW f \in Envs, Transferred(e, f) PROVE ObjectInv'
    BY <2>10, TransferredStep
  <2>11. CASE TransferBlocks(e)
    BY <2>11, TransferBlocksStep
  <2>8. ASSUME NEW m \in mail, TransferIn(e, m) PROVE ObjectInv'
    BY <2>8, TransferInStep
  <2>9. /\ \A o \in Objects : Bind(e, o, FALSE) => ObjectInv'
        /\ \A o \in Plain : Bind(e, o, TRUE) => ObjectInv'
    BY <2>1, Members
  <2> QED BY <1>2, <2>2, <2>3, <2>4, <2>5, <2>6, <2>7, <2>8, <2>9, <2>10,
             <2>11
          DEF EnvStep
<1>3. CASE UNCHANGED vars
  <2>1. ObjectTypeOK' /\ IsFiniteSet(mail')
    BY <1>3 DEF vars, ObjectInv, ObjectTypeOK
  <2>2. CountsAgree'
    <3>1. \A q \in RefCounted : Same(q)
      BY <1>3 DEF vars, Same, OwnersOf, HoldersOf, LettersOf, HasObject
    <3> QED BY <3>1, NothingCounted DEF ObjectInv
  <2>3. Positions' /\ OneEnds' /\ CountedIsAlive'
    BY <1>3 DEF vars, ObjectInv, Shape, Positions, OneEnds, Ending,
                CountedIsAlive, HasObject
  <2>4. EntryIsBound' /\ EntriesAlive' /\ DisposedIsEmpty'
    BY <1>3 DEF vars, ObjectInv, Shape, EntryIsBound, Together, EntriesAlive,
                DisposedIsEmpty, HasObject
  <2> QED BY <2>1, <2>2, <2>3, <2>4 DEF ObjectInv, Shape
<1> QED BY <1>1, <1>2, <1>3 DEF Next

THEOREM ObjectInvariant ==
  Spec => []ObjectInv
<1>1. ObjectInv /\ [Next]_vars => ObjectInv'
  BY InvStep
<1> QED BY <1>1, InvInit, PTL DEF Spec

(***************************************************************************)
(* Type correctness.  That no count goes below zero is part of it, so it   *)
(* rests on the agreement of the counts with those who hold references.    *)
(***************************************************************************)
THEOREM ObjectTypeCorrect ==
  Spec => []ObjectTypeOK
<1>1. ObjectInv => ObjectTypeOK
  BY DEF ObjectInv
<1> QED BY <1>1, ObjectInvariant, PTL

(***************************************************************************)
(* Whatever binds, frees, collects, disposes and transfers an object, on   *)
(* however many threads: its count is that of its owners, its entries in   *)
(* object_db_ and, twice, its messages, and what nobody gives back: of an   *)
(* entry that was replaced, of a message that did not arrive.              *)
(***************************************************************************)
THEOREM CountsAlwaysAgree ==
  Spec => []CountsAgree
<1>1. ObjectInv => CountsAgree
  BY DEF ObjectInv
<1> QED BY <1>1, ObjectInvariant, PTL

(***************************************************************************)
(* object_db_ of no environment has an entry for memory that was freed.    *)
(***************************************************************************)
THEOREM EntriesAlwaysAlive ==
  Spec => []EntriesAlive
<1>1. ObjectInv => EntriesAlive
  BY DEF ObjectInv, Shape
<1> QED BY <1>1, ObjectInvariant, PTL

(***************************************************************************)
(* An object is destructed by one thread only, whichever of free_object(), *)
(* reference_callback() and the engine's own free begins it.               *)
(***************************************************************************)
THEOREM AlwaysDeletedOnce ==
  Spec => []DeletedOnce
<1>1. ObjectInv => DeletedOnce
  BY DEF ObjectInv, Shape, OneEnds, Ending, DeletedOnce, Deleting
<1> QED BY <1>1, ObjectInvariant, PTL

(***************************************************************************)
(* An environment that left the store in dispose() has no entry, and no    *)
(* binding of the engine has its token, but for those that free_object did *)
(* not drop because in_engine_binding_callback_ was set.                   *)
(***************************************************************************)
THEOREM TokensAlwaysEnd ==
  Spec => []TokensEnd
<1>1. ObjectInv => TokensEnd
  BY DEF ObjectInv, Shape, DisposedIsEmpty, EntryIsBound, Together, TokensEnd
<1> QED BY <1>1, ObjectInvariant, PTL

-----------------------------------------------------------------------------
(***************************************************************************)
(* HandleFollowsCount.                                                     *)
(***************************************************************************)
(* A call of either direction that is still to come. *)
UpComes(e, o) ==
  \/ \E x \in Actors : at[x] = "up" /\ on[x] = o
  \/ \E i \in 1..Len(calls[e]) : calls[e][i].up /\ calls[e][i].obj = o

DownComes(e, o) ==
  \/ \E x \in Actors : at[x] = "down" /\ on[x] = o
  \/ \E i \in 1..Len(calls[e]) : ~calls[e][i].up /\ calls[e][i].obj = o

(* A handle that does not fit the count has a call to come that mends it. *)
HandleDue(e, o) ==
  /\ ref[e][o] = "weak" /\ refs[o] > 1 => UpComes(e, o)
  /\ ref[e][o] = "strong" /\ refs[o] <= 1 => DownComes(e, o)

HandlesDue ==
  \A e \in Envs, o \in RefCounted : state[e] = "live" => HandleDue(e, o)

(* An object has no callbacks while it is bound; none is missed, because    *)
(* the environment owns a reference, which keeps the count above one.       *)
BindingIsStrong ==
  \A e \in Envs :
    at[e] = "binding" /\ on[e] \in RefCounted =>
      <<e, on[e]>> \in owns /\ ref[e][on[e]] = "strong"

HandleInv == ObjectInv /\ HandlesDue /\ BindingIsStrong

-----------------------------------------------------------------------------
(* Two who hold an object make a count of two. *)
SharedIsCounted ==
  \A e \in Envs, o \in RefCounted :
    HasObject(e, o) =>
      /\ refs[o] > 0
      /\ \A x \in Actors : <<x, o>> \in owns => refs[o] > 1
      /\ \A f \in Envs : f # e /\ HasObject(f, o) => refs[o] > 1

LEMMA Shared == ObjectInv => SharedIsCounted
<1> SUFFICES ASSUME ObjectInv, NEW e \in Envs, NEW o \in RefCounted,
                    HasObject(e, o)
             PROVE  /\ refs[o] > 0
                    /\ \A x \in Actors : <<x, o>> \in owns => refs[o] > 1
                    /\ \A f \in Envs : f # e /\ HasObject(f, o) => refs[o] > 1
  BY DEF SharedIsCounted
<1> DEFINE rest == HoldersOf(o) \ {e}
<1>1. IsFiniteSet(rest) /\ Cardinality(rest) = Cardinality(HoldersOf(o)) - 1
  <2>1. e \in HoldersOf(o)
    BY DEF HoldersOf
  <2> QED BY <2>1, Counted, FS_RemoveElement
<1>2. Cardinality(rest) \in Nat
  BY <1>1, FS_CardinalityType
<1>3. refs[o] > 0
  BY <1>1, <1>2, Counted
<1>4. ASSUME NEW x \in Actors, <<x, o>> \in owns PROVE refs[o] > 1
  <2>1. OwnersOf(o) # {}
    BY <1>4 DEF OwnersOf
  <2>2. Cardinality(OwnersOf(o)) # 0
    BY <2>1, Counted, FS_EmptySet
  <2> QED BY <1>1, <1>2, <2>2, Counted
<1>5. ASSUME NEW f \in Envs, f # e, HasObject(f, o) PROVE refs[o] > 1
  <2>1. rest # {}
    BY <1>5 DEF HoldersOf
  <2>2. Cardinality(rest) # 0
    BY <1>1, <2>1, FS_EmptySet
  <2> QED BY <1>1, <1>2, <2>2, Counted
<1> QED BY <1>3, <1>4, <1>5

LEMMA SharedNext == ObjectInv' => SharedIsCounted'
BY Shared, PTL

(* A call to come is not lost by steps that leave callbacks and queues alone. *)
CallsStay ==
  /\ calls' = calls
  /\ \A y \in Actors : at[y] \in {"up", "down"} =>
                        at'[y] = at[y] /\ on'[y] = on[y]

LEMMA ComesStay ==
  ASSUME CallsStay, NEW e, NEW o
  PROVE  /\ UpComes(e, o) => UpComes(e, o)'
         /\ DownComes(e, o) => DownComes(e, o)'
<1>1. ASSUME UpComes(e, o) PROVE UpComes(e, o)'
  <2>1. CASE \E x \in Actors : at[x] = "up" /\ on[x] = o
    BY <2>1 DEF CallsStay, UpComes
  <2>2. CASE \E i \in 1..Len(calls[e]) :
               calls[e][i].up /\ calls[e][i].obj = o
    BY <2>2 DEF CallsStay, UpComes
  <2> QED BY <1>1, <2>1, <2>2 DEF UpComes
<1>2. ASSUME DownComes(e, o) PROVE DownComes(e, o)'
  <2>1. CASE \E x \in Actors : at[x] = "down" /\ on[x] = o
    BY <2>1 DEF CallsStay, DownComes
  <2>2. CASE \E i \in 1..Len(calls[e]) :
               ~calls[e][i].up /\ calls[e][i].obj = o
    BY <2>2 DEF CallsStay, DownComes
  <2> QED BY <1>2, <2>1, <2>2 DEF DownComes
<1> QED BY <1>1, <1>2

(* What a step has to respect for the handle of one entry. *)
Respects(e, o) ==
  state'[e] = "live" =>
    /\ state[e] = "live"
    /\ ref'[e][o] = "weak" /\ refs'[o] > 1 =>
         (ref[e][o] = "weak" /\ refs[o] > 1) \/ UpComes(e, o)'
    /\ ref'[e][o] = "strong" /\ refs'[o] <= 1 =>
         (ref[e][o] = "strong" /\ refs[o] <= 1) \/ DownComes(e, o)'

LEMMA DueStays ==
  ASSUME HandlesDue, CallsStay,
         \A e \in Envs, o \in RefCounted : Respects(e, o)
  PROVE  HandlesDue'
<1> SUFFICES ASSUME NEW e \in Envs, NEW o \in RefCounted, state'[e] = "live"
             PROVE  HandleDue(e, o)'
  BY DEF HandlesDue
<1>1. Respects(e, o) /\ HandleDue(e, o)
  BY DEF HandlesDue, Respects
<1>2. /\ UpComes(e, o) => UpComes(e, o)'
      /\ DownComes(e, o) => DownComes(e, o)'
  BY ComesStay
<1> QED BY <1>1, <1>2 DEF Respects, HandleDue

(* Nothing that handles depend on changes. *)
LEMMA HandlesAlike ==
  ASSUME HandlesDue, BindingIsStrong, CallsStay,
         \A e \in Envs : state'[e] = "live" => state[e] = "live",
         \A e \in Envs, o \in RefCounted :
           refs'[o] = refs[o] /\ ref'[e][o] \in {ref[e][o], "none", "empty"},
         \A e \in Envs :
           at'[e] = "binding" /\ on'[e] \in RefCounted =>
             /\ at[e] = "binding" /\ on'[e] = on[e]
             /\ ref'[e][on[e]] = ref[e][on[e]],
         owns \subseteq owns'
  PROVE  HandlesDue' /\ BindingIsStrong'
<1>1. \A e \in Envs, o \in RefCounted : Respects(e, o)
  BY DEF Respects
<1>2. HandlesDue'
  BY <1>1, DueStays
<1>3. BindingIsStrong'
  BY DEF BindingIsStrong
<1> QED BY <1>2, <1>3
-----------------------------------------------------------------------------
(* The steps.  Those of actors that cross a count of one leave a call. *)

LEMMA AllocateHandles ==
  ASSUME HandleInv, NEW x \in Actors, NEW o \in Objects, Allocate(x, o)
  PROVE  HandlesDue' /\ BindingIsStrong'
<1>1. UNCHANGED <<ref, calls, state, at, on>> /\ life[o] = "none"
      /\ owns \subseteq owns'
  BY DEF Allocate
<1>2. \A q \in RefCounted \ {o} : refs'[q] = refs[q]
  BY TypesOf DEF HandleInv, Allocate, CountTypeOK
<1>3. \A e \in Envs : o \in RefCounted => ref[e][o] = "none"
  BY <1>1, EntryHolds DEF HandleInv, Referenced, HasObject
<1>4. CallsStay
  BY <1>1 DEF CallsStay
<1>5. \A e \in Envs, q \in RefCounted : Respects(e, q)
  BY <1>1, <1>2, <1>3 DEF Respects
<1>6. HandlesDue'
  BY <1>4, <1>5, DueStays DEF HandleInv
<1>7. BindingIsStrong'
  BY <1>1 DEF HandleInv, BindingIsStrong
<1> QED BY <1>6, <1>7

LEMMA ReferenceHandles ==
  ASSUME HandleInv, NEW x \in Actors, NEW o \in RefCounted, Reference(x, o)
  PROVE  HandlesDue' /\ BindingIsStrong'
<1>1. /\ at[x] = "idle" /\ UNCHANGED <<ref, calls, state, entered>>
      /\ owns \subseteq owns' /\ GoOn(x, AfterInc(refs[o] + 1), o)
  BY DEF Reference, Idle
<1>2. /\ refs[o] \in Nat /\ refs'[o] = refs[o] + 1
      /\ \A q \in RefCounted \ {o} : refs'[q] = refs[q]
  BY TypesOf DEF HandleInv, Reference, CountTypeOK
<1>3. PICK s \in {"up", "idle"} : /\ s = AfterInc(refs[o] + 1)
                                  /\ refs[o] = 1 => s = "up"
  BY <1>2 DEF AfterInc
<1>4. Moved(x, s, o)
  BY <1>1, <1>3, GoingOn, TypesOf, Members DEF HandleInv, Idle, Step
<1>5. CallsStay
  BY <1>1, <1>4 DEF CallsStay, Moved
<1>6. \A e \in Envs : refs[o] = 1 => UpComes(e, o)'
  BY <1>3, <1>4 DEF UpComes, Moved
<1>7. \A e \in Envs, q \in RefCounted : Respects(e, q)
  <2> SUFFICES ASSUME NEW e \in Envs, NEW q \in RefCounted
               PROVE  Respects(e, q)
    OBVIOUS
  <2>1. CASE q = o
    BY <1>1, <1>2, <1>6, <2>1 DEF Respects
  <2>2. CASE q # o
    BY <1>1, <1>2, <2>2 DEF Respects
  <2> QED BY <2>1, <2>2
<1>8. HandlesDue'
  BY <1>5, <1>7, DueStays DEF HandleInv
<1>9. BindingIsStrong'
  BY <1>1, <1>4, Members DEF HandleInv, BindingIsStrong, Moved
<1> QED BY <1>8, <1>9

LEMMA UnreferenceHandles ==
  ASSUME HandleInv, ObjectInv', NEW x \in Actors, NEW o \in RefCounted,
         Unreference(x, o)
  PROVE  HandlesDue' /\ BindingIsStrong'
<1>1. /\ at[x] = "idle" /\ UNCHANGED <<ref, calls, state, entered>>
      /\ owns' = owns \ {<<x, o>>} /\ GoOn(x, AfterDec(refs[o] - 1), o)
      /\ <<x, o>> \in owns
  BY DEF Unreference, Idle
<1>2. /\ refs[o] \in Nat \ {0} /\ refs'[o] = refs[o] - 1
      /\ \A q \in RefCounted \ {o} : refs'[q] = refs[q]
  BY <1>1, OwnerHolds, TypesOf
     DEF HandleInv, Referenced, Unreference, CountTypeOK
<1>3. PICK s \in {"last", "down", "idle"} : /\ s = AfterDec(refs[o] - 1)
                                            /\ refs'[o] = 1 => s = "down"
  BY <1>2 DEF AfterDec
<1>4. Moved(x, s, o)
  BY <1>1, <1>3, GoingOn, TypesOf, Members DEF HandleInv, Idle, Step
<1>5. CallsStay
  BY <1>1, <1>4 DEF CallsStay, Moved
<1>6. \A e \in Envs : refs'[o] = 1 => DownComes(e, o)'
  BY <1>3, <1>4 DEF DownComes, Moved
<1>7. \A e \in Envs : ref[e][o] # "none" => refs'[o] > 0
  BY <1>1, SharedNext DEF SharedIsCounted, HasObject
<1>8. \A e \in Envs, q \in RefCounted : Respects(e, q)
  <2> SUFFICES ASSUME NEW e \in Envs, NEW q \in RefCounted
               PROVE  Respects(e, q)
    OBVIOUS
  <2>1. CASE q = o
    BY <1>1, <1>2, <1>6, <1>7, <2>1 DEF Respects
  <2>2. CASE q # o
    BY <1>1, <1>2, <2>2 DEF Respects
  <2> QED BY <2>1, <2>2
<1>9. HandlesDue'
  BY <1>5, <1>8, DueStays DEF HandleInv
<1>10. BindingIsStrong'
  BY <1>1, <1>3, <1>4, Members DEF HandleInv, BindingIsStrong, Moved
<1> QED BY <1>9, <1>10

(* The one call that is settled mends the handle, the others are queued; no *)
(* environment that is bound misses it.                                     *)
LEMMA ReferenceCallbackHandles ==
  ASSUME HandleInv, NEW x \in Actors, ReferenceCallback(x)
  PROVE  HandlesDue' /\ BindingIsStrong'
<1> PICK o \in RefCounted : o = on[x]
  BY DEF ReferenceCallback, HandleInv, ObjectInv, Shape, Positions
<1> DEFINE up == at[x] = "up"
           call == [up |-> up, obj |-> o]
<1>1. /\ UNCHANGED <<refs, owns, state, bound>>
      /\ at[x] \in {"up", "down", "last"}
  BY DEF ReferenceCallback
<1>2. ref' = IF x \in Called(o)
               THEN [ref EXCEPT ![x][o] = Settled(x, o, up)] ELSE ref
  BY DEF ReferenceCallback
<1>3. ref \in [Envs -> [Objects -> {"none", "empty", "weak", "strong"}]]
      /\ refs \in [RefCounted -> Nat] /\ calls \in [Envs -> Seq(Call)]
  BY TypesOf DEF HandleInv, EntryTypeOK, CountTypeOK, EnvTypeOK
<1>4. call \in Call
  BY DEF Call
<1>5. /\ \A y \in Actors \ {x} : at'[y] = at[y] /\ on'[y] = on[y]
      /\ at'[x] \in {"idle", "dying"}
  <2>1. Go(x, "dying", o) \/ Rest(x)
    BY DEF ReferenceCallback
  <2>2. ActorTypeOK /\ entered' = entered
    BY TypesOf DEF HandleInv, ReferenceCallback
  <2>3. Moved(x, "dying", o) \/ Moved(x, "idle", NoObject)
    BY <2>1, <2>2, Going, Resting, Members DEF Step
  <2> QED BY <2>3 DEF Moved
<1>6. \A e \in Envs, q \in RefCounted :
        ~(e = x /\ q = o /\ x \in Called(o)) => ref'[e][q] = ref[e][q]
  BY <1>2, <1>3, Members DEF Called
<1>7. x \in Called(o) => x \in Envs /\ ref'[x][o] = Settled(x, o, up)
  BY <1>2, <1>3, Members DEF Called
<1>8. \A e \in Envs : \A i \in 1..Len(calls[e]) :
        i \in 1..Len(calls'[e]) /\ calls'[e][i] = calls[e][i]
  BY <1>3, <1>4 DEF ReferenceCallback
<1>9. \A e \in Called(o) \ {x} : state[e] = "live" =>
        /\ Len(calls[e]) + 1 \in 1..Len(calls'[e])
        /\ calls'[e][Len(calls[e]) + 1] = call
  BY <1>3, <1>4 DEF ReferenceCallback, Called
<1>10. \A e \in Envs, q \in RefCounted :
         /\ UpComes(e, q) /\ ~(q = o /\ up) => UpComes(e, q)'
         /\ DownComes(e, q) /\ ~(q = o /\ at[x] = "down") => DownComes(e, q)'
  <2> SUFFICES ASSUME NEW e \in Envs, NEW q \in RefCounted
               PROVE  /\ UpComes(e, q) /\ ~(q = o /\ up) => UpComes(e, q)'
                      /\ DownComes(e, q) /\ ~(q = o /\ at[x] = "down")
                           => DownComes(e, q)'
    OBVIOUS
  <2>1. ASSUME UpComes(e, q), ~(q = o /\ up) PROVE UpComes(e, q)'
    <3>1. CASE \E y \in Actors : at[y] = "up" /\ on[y] = q
      BY <1>5, <2>1, <3>1 DEF UpComes
    <3>2. CASE \E i \in 1..Len(calls[e]) :
                 calls[e][i].up /\ calls[e][i].obj = q
      BY <1>8, <3>2 DEF UpComes
    <3> QED BY <2>1, <3>1, <3>2 DEF UpComes
  <2>2. ASSUME DownComes(e, q), ~(q = o /\ at[x] = "down")
        PROVE  DownComes(e, q)'
    <3>1. CASE \E y \in Actors : at[y] = "down" /\ on[y] = q
      BY <1>5, <2>2, <3>1 DEF DownComes
    <3>2. CASE \E i \in 1..Len(calls[e]) :
                 ~calls[e][i].up /\ calls[e][i].obj = q
      BY <1>8, <3>2 DEF DownComes
    <3> QED BY <2>2, <3>1, <3>2 DEF DownComes
  <2> QED BY <2>1, <2>2
<1>11. \A e \in Called(o) \ {x} : state[e] = "live" =>
         /\ up => UpComes(e, o)'
         /\ ~up => DownComes(e, o)'
  <2> SUFFICES ASSUME NEW e \in Called(o) \ {x}, state[e] = "live"
               PROVE  /\ up => UpComes(e, o)'
                      /\ ~up => DownComes(e, o)'
    OBVIOUS
  <2>1. PICK i \in 1..Len(calls'[e]) : calls'[e][i] = call
    BY <1>9
  <2>2. calls'[e][i].up = up /\ calls'[e][i].obj = o
    <3>1. call.up = up /\ call.obj = o
      BY Zenon
    <3> HIDE DEF call
    <3> QED BY <2>1, <3>1
  <2>3. CASE up
    BY <2>2, <2>3 DEF UpComes
  <2>4. CASE ~up
    BY <2>2, <2>4 DEF DownComes
  <2> QED BY <2>3, <2>4
<1>12. ASSUME NEW e \in Envs, state[e] = "live",
              ref[e][o] \in {"weak", "strong"}
       PROVE  e \in Called(o) \/ (at[e] = "binding" /\ on[e] = o)
  <2>1. HasObject(e, o) /\ Together(e, o)
    BY <1>12, Members DEF HandleInv, ObjectInv, Shape, EntryIsBound, HasObject
  <2> QED BY <1>12, <2>1 DEF Together, Called, InStore
<1>13. HandlesDue'
  <2> SUFFICES ASSUME NEW e \in Envs, NEW q \in RefCounted, state[e] = "live"
               PROVE  HandleDue(e, q)'
    BY <1>1 DEF HandlesDue
  <2>1. HandleDue(e, q)
    BY DEF HandleInv, HandlesDue
  <2>2. CASE q # o
    BY <1>1, <1>6, <1>10, <2>1, <2>2 DEF HandleDue
  <2>3. CASE q = o /\ e = x /\ x \in Called(o)
    <3>1. ref[e][o] \in {"none", "empty", "weak", "strong"}
          /\ refs[o] \in Nat /\ ref'[e][o] = Settled(e, o, up)
      BY <1>3, <1>7, <2>3, Members
    <3>2. CASE up
      <4>1. ref'[e][o] = "weak" => refs[o] <= 1
        BY <3>1, <3>2 DEF Settled, TryGetObject
      <4>2. ref'[e][o] = "strong" /\ refs[o] <= 1 => ref[e][o] = "strong"
        BY <3>1, <3>2 DEF Settled, TryGetObject
      <4> QED BY <1>1, <1>10, <2>1, <2>3, <3>1, <3>2, <4>1, <4>2 DEF HandleDue
    <3>3. CASE ~up
      <4>1. HasObject(e, o) /\ refs[o] > 0
        <5>1. HasObject(e, o)
          BY <2>3 DEF Called
        <5> QED BY <5>1, Shared DEF HandleInv, SharedIsCounted
      <4>2. ref'[e][o] = "strong" => refs[o] > 1
        BY <3>1, <3>3, <4>1 DEF Settled, TryGetObject
      <4>3. ref'[e][o] = "weak" /\ refs[o] > 1 => ref[e][o] = "weak"
        BY <3>1, <3>3 DEF Settled, TryGetObject
      <4> QED BY <1>1, <1>10, <2>1, <2>3, <3>1, <3>3, <4>2, <4>3
              DEF HandleDue
    <3> QED BY <3>2, <3>3
  <2>4. CASE q = o /\ ~(e = x /\ x \in Called(o))
    <3>1. ref'[e][o] = ref[e][o]
      BY <1>6, <2>4
    <3>2. CASE e \in Called(o)
      BY <1>1, <1>10, <1>11, <2>1, <2>4, <3>1, <3>2 DEF HandleDue
    <3>3. CASE e \notin Called(o)
      <4>1. ASSUME ref[e][o] \in {"weak", "strong"}
            PROVE  ref[e][o] = "strong" /\ refs[o] > 1
        <5>1. at[e] = "binding" /\ on[e] = o
          BY <1>12, <3>3, <4>1
        <5>2. <<e, o>> \in owns /\ ref[e][o] = "strong"
          BY <5>1 DEF HandleInv, BindingIsStrong
        <5>3. HasObject(e, o)
          BY <4>1 DEF HasObject
        <5> QED BY <5>2, <5>3, Shared, Members DEF HandleInv, SharedIsCounted
      <4> QED BY <1>1, <1>3, <2>4, <3>1, <4>1 DEF HandleDue
    <3> QED BY <3>2, <3>3
  <2> QED BY <2>2, <2>3, <2>4
<1>14. BindingIsStrong'
  <2> SUFFICES ASSUME NEW e \in Envs, at'[e] = "binding", on'[e] \in RefCounted
               PROVE  <<e, on'[e]>> \in owns' /\ ref'[e][on'[e]] = "strong"
    BY DEF BindingIsStrong
  <2>1. e # x /\ at[e] = "binding" /\ on'[e] = on[e]
    BY <1>5, Members
  <2> QED BY <1>1, <1>6, <2>1 DEF HandleInv, BindingIsStrong
<1> QED BY <1>13, <1>14

(* Steps that neither count nor queue nor bind: an entry may go. *)
Calm ==
  \A y \in Actors : \/ at'[y] = at[y] /\ on'[y] = on[y]
                    \/ at[y] \notin {"up", "down"} /\ at'[y] # "binding"

LEMMA CalmHandles ==
  ASSUME HandleInv, Calm, calls' = calls,
         \A e \in Envs : <<e, on[e]>> \in owns /\ at'[e] = "binding" =>
                          <<e, on[e]>> \in owns',
         \A o \in RefCounted : refs'[o] = refs[o],
         \A e \in Envs : state'[e] = "live" => state[e] = "live",
         \A e \in Envs, o \in RefCounted :
           \/ ref'[e][o] = ref[e][o]
           \/ /\ ref'[e][o] \in {"none", "empty"}
              /\ ~(at'[e] = "binding" /\ on'[e] = o)
  PROVE  HandlesDue' /\ BindingIsStrong'
<1>1. CallsStay
  BY DEF CallsStay, Calm
<1>2. \A e \in Envs, o \in RefCounted : Respects(e, o)
  BY DEF Respects
<1>3. HandlesDue'
  BY <1>1, <1>2, DueStays DEF HandleInv
<1>4. BindingIsStrong'
  BY Members DEF Calm, HandleInv, BindingIsStrong
<1> QED BY <1>3, <1>4

LEMMA FreeHandles ==
  ASSUME HandleInv, NEW x \in Actors, NEW o \in Plain, Free(x, o)
  PROVE  HandlesDue' /\ BindingIsStrong'
<1>1. at[x] = "idle" /\ UNCHANGED <<refs, owns, ref, calls, state>>
  BY DEF Free, Idle
<1>2. Calm
  <2>1. Moved(x, "dying", o)
    BY Going, TypesOf, Members DEF HandleInv, Free, Step
  <2> QED BY <1>1, <2>1 DEF Moved, Calm
<1> QED BY <1>1, <1>2, CalmHandles

LEMMA FreeCallbackHandles ==
  ASSUME HandleInv, NEW x \in Actors, NEW e \in Envs, FreeCallback(x, e)
  PROVE  HandlesDue' /\ BindingIsStrong'
<1>1. /\ at[x] = "dying" /\ UNCHANGED <<refs, owns, ref, calls, state, on>>
      /\ at' = [at EXCEPT ![x] = "freeing"] \/ at' = at
  BY DEF FreeCallback
<1>2. Calm
  BY <1>1, TypesOf DEF Calm, HandleInv, ActorTypeOK
<1> QED BY <1>1, <1>2, CalmHandles

LEMMA LeaveFreeCallbackHandles ==
  ASSUME HandleInv, NEW x \in Actors, NEW e \in Envs, LeaveFreeCallback(x, e)
  PROVE  HandlesDue' /\ BindingIsStrong'
<1> PICK o \in Objects : o = on[x]
  BY TypesOf DEF HandleInv, LeaveFreeCallback, ActorTypeOK
<1>1. /\ at[x] = "freeing" /\ UNCHANGED <<refs, owns, calls, state, on>>
      /\ \E s \in {"dying", "stuck"} : at' = [at EXCEPT ![x] = s]
      /\ ref' = [ref EXCEPT ![e][o] = "none"]
  BY DEF LeaveFreeCallback
<1>2. Calm
  BY <1>1, TypesOf DEF Calm, HandleInv, ActorTypeOK
<1>3. /\ ref'[e][o] = "none"
      /\ \A f \in Envs, q \in Objects :
           f # e \/ q # o => ref'[f][q] = ref[f][q]
  BY <1>1, TypesOf DEF HandleInv, EntryTypeOK
<1>4. ~(at'[e] = "binding" /\ on'[e] = o)
  <2>1. life[o] = "dying"
    BY <1>1 DEF HandleInv, ObjectInv, Shape, Positions
  <2>2. at[e] = "binding" => on[e] # o
    BY <2>1, Members DEF HandleInv, ObjectInv, Shape, Positions
  <2> QED BY <1>1, <2>2, Members, TypesOf DEF HandleInv, ActorTypeOK
<1> QED BY <1>1, <1>2, <1>3, <1>4, Members, CalmHandles

LEMMA DeletedHandles ==
  ASSUME HandleInv, NEW x \in Actors, Deleted(x)
  PROVE  HandlesDue' /\ BindingIsStrong'
<1>1. /\ at[x] = "dying"
      /\ UNCHANGED <<refs, owns, ref, calls, state, entered>>
  BY DEF Deleted
<1>2. Calm
  <2>1. Moved(x, "idle", NoObject)
    BY <1>1, Resting, TypesOf DEF HandleInv, Deleted
  <2> QED BY <1>1, <2>1 DEF Moved, Calm
<1> QED BY <1>1, <1>2, CalmHandles

LEMMA DropMessageHandles ==
  ASSUME HandleInv, ObjectInv', NEW x \in Actors, NEW m \in mail,
         DropMessage(x, m)
  PROVE  HandlesDue' /\ BindingIsStrong'
<1> PICK o \in Objects : o = m.obj
  BY TypesOf DEF HandleInv, CountTypeOK, Letter
<1>1. at[x] = "idle" /\ UNCHANGED <<owns, ref, calls, state, entered>>
  BY DEF DropMessage, Idle
<1>2. CASE o \notin RefCounted
  <2>1. UNCHANGED <<refs, at, on>>
    BY <1>2 DEF DropMessage
  <2>2. Calm
    BY <2>1 DEF Calm
  <2> QED BY <1>1, <2>1, <2>2, CalmHandles
<1>3. CASE o \in RefCounted
  <2>1. refs[o] \in Nat \ {0}
    BY <1>3, LetterHolds DEF HandleInv, Referenced
  <2>2. /\ refs'[o] = refs[o] - 1
        /\ \A q \in RefCounted \ {o} : refs'[q] = refs[q]
        /\ GoOn(x, AfterDec(refs[o] - 1), o)
    BY <1>3, TypesOf DEF HandleInv, CountTypeOK, DropMessage
  <2>3. PICK s \in {"last", "down", "idle"} :
          s = AfterDec(refs[o] - 1) /\ (refs'[o] = 1 => s = "down")
    BY <2>1, <2>2 DEF AfterDec
  <2>4. Moved(x, s, o)
    BY <1>1, <2>2, <2>3, GoingOn, TypesOf DEF HandleInv, Idle, Step
  <2>5. CallsStay
    BY <1>1, <2>4 DEF CallsStay, Moved
  <2>6. \A f \in Envs : refs'[o] = 1 => DownComes(f, o)'
    BY <2>3, <2>4 DEF DownComes, Moved
  <2>7. \A f \in Envs : ref[f][o] # "none" => refs'[o] > 0
    BY <1>1, <1>3, SharedNext DEF SharedIsCounted, HasObject
  <2>8. \A f \in Envs, q \in RefCounted : Respects(f, q)
    <3> SUFFICES ASSUME NEW f \in Envs, NEW q \in RefCounted
                 PROVE  Respects(f, q)
      OBVIOUS
    <3>1. CASE q = o
      BY <1>1, <2>1, <2>2, <2>6, <2>7, <3>1 DEF Respects
    <3>2. CASE q # o
      BY <1>1, <2>2, <3>2 DEF Respects
    <3> QED BY <3>1, <3>2
  <2>9. HandlesDue'
    BY <2>5, <2>8, DueStays DEF HandleInv
  <2>10. BindingIsStrong'
    BY <1>1, <2>4, Members DEF HandleInv, BindingIsStrong, Moved
  <2> QED BY <2>9, <2>10
<1> QED BY <1>2, <1>3

LEMMA BindInstanceHandles ==
  ASSUME HandleInv, NEW e \in Envs, BindInstance(e)
  PROVE  HandlesDue' /\ BindingIsStrong'
<1>1. at[e] = "binding" /\ UNCHANGED <<refs, owns, ref, calls, state>>
  BY DEF BindInstance
<1>2. Calm
  <2>1. Moved(e, "idle", NoObject)
    BY Resting, Members, TypesOf DEF HandleInv, BindInstance
  <2> QED BY <1>1, <2>1 DEF Moved, Calm
<1> QED BY <1>1, <1>2, CalmHandles

LEMMA DisposeHandles ==
  ASSUME HandleInv, NEW e \in Envs,
         Dispose(e) \/ StartCleanup(e) \/ DisposeDone(e)
  PROVE  HandlesDue' /\ BindingIsStrong'
<1>1. UNCHANGED <<refs, owns, ref, calls, at, on>>
  BY DEF Dispose, StartCleanup, DisposeDone
<1>2. \A f \in Envs : state'[f] = "live" => state[f] = "live"
  BY TypesOf DEF HandleInv, EnvTypeOK, Dispose, StartCleanup, DisposeDone
<1>3. Calm
  BY <1>1 DEF Calm
<1> QED BY <1>1, <1>2, <1>3, CalmHandles

LEMMA BindPointerHandles ==
  ASSUME HandleInv, NEW e \in Envs, NEW o \in Objects, NEW owned \in BOOLEAN,
         Live(e), o \in RefCounted => <<e, o>> \in owns,
         BindPointer(e, o, owned), UNCHANGED <<owns, calls, state, entered>>
  PROVE  HandlesDue' /\ BindingIsStrong'
<1>1. e \in Actors /\ at[e] = "idle" /\ state[e] = "live"
  BY Members DEF Live, Idle
<1>2. Moved(e, "binding", o)
  BY <1>1, Going, TypesOf DEF HandleInv, BindPointer, Step
<1>3. o \in RefCounted => refs[o] \in Nat \ {0}
  BY <1>1, OwnerHolds DEF HandleInv, Referenced
<1>4. /\ \A q \in RefCounted \ {o} : refs'[q] = refs[q]
      /\ o \in RefCounted => refs'[o] = refs[o] + 1
  BY TypesOf DEF HandleInv, CountTypeOK, BindPointer
<1>5. /\ o \in RefCounted => ref'[e][o] = "strong"
      /\ \A f \in Envs, q \in Objects :
           f # e \/ q # o => ref'[f][q] = ref[f][q]
  <2>1. ref \in [Envs -> [Objects -> {"none", "empty", "weak", "strong"}]]
    BY TypesOf DEF HandleInv, EntryTypeOK
  <2>2. o \in RefCounted => ref' = [ref EXCEPT ![e][o] = "strong"]
    <3> SUFFICES ASSUME o \in RefCounted
                 PROVE  ref' = [ref EXCEPT ![e][o] = "strong"]
      OBVIOUS
    <3>1. refs[o] + 1 # 1
      BY <1>3
    <3>2. ref' = [ref EXCEPT ![e][o] =
                    IF refs[o] + 1 = 1 THEN "weak" ELSE "strong"]
      BY DEF BindPointer
    <3> QED BY <3>1, <3>2
  <2>3. ref' = [ref EXCEPT ![e][o] = "weak"]
        \/ ref' = [ref EXCEPT ![e][o] = "strong"]
    BY DEF BindPointer
  <2> QED BY <2>1, <2>2, <2>3
<1>6. \A f \in Envs : o \in RefCounted /\ HasObject(f, o) => refs[o] > 1
  BY <1>1, Shared DEF HandleInv, SharedIsCounted
<1>7. \A f \in Envs, q \in RefCounted : Respects(f, q)
  <2> SUFFICES ASSUME NEW f \in Envs, NEW q \in RefCounted
               PROVE  Respects(f, q)
    OBVIOUS
  <2>1. CASE q # o
    BY <1>4, <1>5, <2>1, Members DEF Respects
  <2>2. CASE q = o /\ f = e
    BY <1>1, <1>3, <1>4, <1>5, <2>2 DEF Respects
  <2>3. CASE q = o /\ f # e
    <3>1. ref'[f][o] = ref[f][o]
      BY <1>5, <2>3
    <3>2. ref[f][o] = "weak" => refs[o] > 1
      BY <1>6, <2>3 DEF HasObject
    <3> QED BY <1>3, <1>4, <2>3, <3>1, <3>2 DEF Respects
  <2> QED BY <2>1, <2>2, <2>3
<1>8. HandlesDue'
  <2>1. CallsStay
    BY <1>1, <1>2 DEF CallsStay, Moved
  <2> QED BY <1>7, <2>1, DueStays DEF HandleInv
<1>9. BindingIsStrong'
  BY <1>1, <1>2, <1>5, Members DEF HandleInv, BindingIsStrong, Moved
<1> QED BY <1>8, <1>9

LEMMA BindHandles ==
  ASSUME HandleInv, NEW e \in Envs, NEW o \in Objects,
         \/ \E owned \in BOOLEAN : Bind(e, o, owned)
         \/ Crossbind(e, o)
  PROVE  HandlesDue' /\ BindingIsStrong'
BY BindPointerHandles DEF Bind, Crossbind

(* A reference less is a call, unless the entry was the last that holds. *)
LEMMA FreeObjectHandles ==
  ASSUME HandleInv, ObjectInv', NEW e \in Envs, NEW o \in Objects, Idle(e),
         HasObject(e, o), FreeObject(e, o),
         UNCHANGED <<owns, calls, state, entered>>
  PROVE  HandlesDue' /\ BindingIsStrong'
<1>1. e \in Actors /\ at[e] = "idle"
  BY Members DEF Idle
<1>2. /\ ref'[e][o] = "none"
      /\ \A f \in Envs, q \in Objects :
           f # e \/ q # o => ref'[f][q] = ref[f][q]
  BY TypesOf DEF HandleInv, EntryTypeOK, FreeObject
<1>3. CASE o \in RefCounted
  <2>1. refs[o] \in Nat \ {0}
    BY <1>3, EntryHolds DEF HandleInv, Referenced
  <2>2. /\ refs'[o] = refs[o] - 1
        /\ \A q \in RefCounted \ {o} : refs'[q] = refs[q]
        /\ GoOn(e, AfterDec(refs[o] - 1), o)
    BY <1>3, TypesOf DEF HandleInv, CountTypeOK, FreeObject
  <2>3. PICK s \in {"last", "down", "idle"} :
          s = AfterDec(refs[o] - 1) /\ (refs'[o] = 1 => s = "down")
    BY <2>1, <2>2 DEF AfterDec
  <2>4. Moved(e, s, o)
    BY <1>1, <2>2, <2>3, GoingOn, TypesOf DEF HandleInv, Idle, Step
  <2>5. CallsStay
    BY <1>1, <2>4 DEF CallsStay, Moved
  <2>6. \A f \in Envs : refs'[o] = 1 => DownComes(f, o)'
    BY <1>1, <2>3, <2>4 DEF DownComes, Moved
  <2>7. \A f \in Envs : ref'[f][o] # "none" => refs'[o] > 0
    BY <1>3, SharedNext DEF SharedIsCounted, HasObject
  <2>8. \A f \in Envs, q \in RefCounted : Respects(f, q)
    <3> SUFFICES ASSUME NEW f \in Envs, NEW q \in RefCounted
                 PROVE  Respects(f, q)
      OBVIOUS
    <3>1. CASE q = o
      <4>1. ref'[f][o] = "none" \/ ref'[f][o] = ref[f][o]
        BY <1>2
      <4> QED BY <2>1, <2>2, <2>6, <2>7, <3>1, <4>1 DEF Respects
    <3>2. CASE q # o
      BY <1>2, <2>2, <3>2, Members DEF Respects
    <3> QED BY <3>1, <3>2
  <2>9. HandlesDue'
    BY <2>5, <2>8, DueStays DEF HandleInv
  <2>10. BindingIsStrong'
    BY <1>1, <1>2, <2>4, Members DEF HandleInv, BindingIsStrong, Moved
  <2> QED BY <2>9, <2>10
<1>4. CASE o \notin RefCounted
  <2>1. refs' = refs
    BY <1>4 DEF FreeObject
  <2>2. \A f \in Envs, q \in RefCounted : ref'[f][q] = ref[f][q]
    BY <1>2, <1>4, Members
  <2>3. Calm
    <3>1. CASE Go(e, "dying", o)
      <4>1. Moved(e, "dying", o)
        BY <1>1, <3>1, Going, TypesOf DEF HandleInv, Step
      <4> QED BY <1>1, <4>1 DEF Moved, Calm
    <3>2. CASE UNCHANGED <<at, on>>
      BY <3>2 DEF Calm
    <3> QED BY <1>4, <3>1, <3>2 DEF FreeObject
  <2> QED BY <2>1, <2>2, <2>3, CalmHandles
<1> QED BY <1>3, <1>4

LEMMA CollectHandles ==
  ASSUME HandleInv, ObjectInv', NEW e \in Envs, NEW o \in RefCounted,
         Collect(e, o)
  PROVE  HandlesDue' /\ BindingIsStrong'
<1>1. o \in Objects /\ Idle(e) /\ HasObject(e, o) /\ e \in Actors
  BY Members DEF Collect, HasObject
<1>2. UNCHANGED <<owns, calls, state, entered>>
  BY DEF Collect
<1>3. ASSUME ref' = [ref EXCEPT ![e][o] = "empty"],
             UNCHANGED <<refs, at, on>>
      PROVE  HandlesDue' /\ BindingIsStrong'
  <2>1. Calm
    BY <1>3 DEF Calm
  <2>2. /\ ref'[e][o] = "empty"
        /\ \A f \in Envs, q \in Objects :
             f # e \/ q # o => ref'[f][q] = ref[f][q]
    BY <1>1, <1>3, TypesOf DEF HandleInv, EntryTypeOK
  <2>3. at'[e] # "binding"
    BY <1>1, <1>3 DEF Idle
  <2> QED BY <1>2, <1>3, <2>1, <2>2, <2>3, Members, CalmHandles
<1>4. CASE FreeObject(e, o)
  BY <1>1, <1>2, <1>4, FreeObjectHandles
<1> QED BY <1>3, <1>4 DEF Collect

LEMMA SecondPassHandles ==
  ASSUME HandleInv, ObjectInv', NEW e \in Envs, NEW o \in RefCounted,
         SecondPass(e, o)
  PROVE  HandlesDue' /\ BindingIsStrong'
<1>1. UNCHANGED <<owns, calls, state, entered>> /\ Idle(e)
  BY DEF SecondPass
<1>2. CASE state[e] = "live" /\ HasObject(e, o)
  BY <1>1, <1>2, Members, FreeObjectHandles DEF SecondPass
<1>3. CASE ~(state[e] = "live" /\ HasObject(e, o))
  <2>1. UNCHANGED <<refs, ref, at, on>>
    BY <1>3 DEF SecondPass
  <2>2. Calm
    BY <2>1 DEF Calm
  <2> QED BY <1>1, <2>1, <2>2, CalmHandles
<1> QED BY <1>2, <1>3

LEMMA DisposeObjectHandles ==
  ASSUME HandleInv, ObjectInv', NEW e \in Envs, NEW o \in Objects,
         DisposeObject(e, o)
  PROVE  HandlesDue' /\ BindingIsStrong'
BY FreeObjectHandles DEF DisposeObject

(* The call that is executed mends the handle by the count of now. *)
LEMMA ExecAsyncCallHandles ==
  ASSUME HandleInv, NEW e \in Envs, ExecAsyncCall(e)
  PROVE  HandlesDue' /\ BindingIsStrong'
<1>1. calls \in [Envs -> Seq(Call)] /\ calls[e] # <<>>
  BY TypesOf DEF HandleInv, EnvTypeOK, ExecAsyncCall
<1>2. PICK c \in Call : c = Head(calls[e])
  BY <1>1
<1>3. PICK o \in RefCounted : o = c.obj
  BY DEF Call
<1>4. /\ UNCHANGED <<refs, owns, state, at, on>>
      /\ ref' = [ref EXCEPT ![e][o] = Settled(e, o, c.up)]
      /\ calls' = [calls EXCEPT ![e] = Tail(calls[e])]
      /\ at[e] = "idle"
  BY <1>2, <1>3 DEF ExecAsyncCall, Idle
<1>5. /\ ref'[e][o] = Settled(e, o, c.up)
      /\ ref[e][o] \in {"none", "empty", "weak", "strong"}
      /\ refs[o] \in Nat
      /\ \A f \in Envs, q \in Objects :
           f # e \/ q # o => ref'[f][q] = ref[f][q]
  BY <1>4, TypesOf, Members DEF HandleInv, EntryTypeOK, CountTypeOK
<1>6. \A f \in Envs \ {e} : calls'[f] = calls[f]
  BY <1>1, <1>4
<1>7. \A i \in 1..Len(calls[e]) :
        \/ calls[e][i] = c
        \/ i - 1 \in 1..Len(calls'[e]) /\ calls'[e][i - 1] = calls[e][i]
  <2>1. calls'[e] = Tail(calls[e])
    BY <1>1, <1>4
  <2> QED BY <1>1, <1>2, <2>1
<1>8. \A f \in Envs, q \in RefCounted :
        f # e \/ q # o =>
          /\ UpComes(f, q) => UpComes(f, q)'
          /\ DownComes(f, q) => DownComes(f, q)'
  <2> SUFFICES ASSUME NEW f \in Envs, NEW q \in RefCounted, f # e \/ q # o
               PROVE  /\ UpComes(f, q) => UpComes(f, q)'
                      /\ DownComes(f, q) => DownComes(f, q)'
    OBVIOUS
  <2>1. ASSUME NEW i \in 1..Len(calls[f]), calls[f][i].obj = q
        PROVE  \E j \in 1..Len(calls'[f]) : calls'[f][j] = calls[f][i]
    <3>1. CASE f # e
      BY <1>6, <3>1
    <3>2. CASE f = e /\ q # o
      BY <1>3, <1>7, <2>1, <3>2
    <3> QED BY <3>1, <3>2
  <2>2. ASSUME UpComes(f, q) PROVE UpComes(f, q)'
    BY <1>4, <2>1, <2>2 DEF UpComes
  <2>3. ASSUME DownComes(f, q) PROVE DownComes(f, q)'
    BY <1>4, <2>1, <2>3 DEF DownComes
  <2> QED BY <2>2, <2>3
<1>9. /\ UpComes(e, o) /\ ~c.up => UpComes(e, o)'
      /\ DownComes(e, o) /\ c.up => DownComes(e, o)'
  <2>1. ASSUME UpComes(e, o), ~c.up PROVE UpComes(e, o)'
    <3>1. CASE \E i \in 1..Len(calls[e]) :
                 calls[e][i].up /\ calls[e][i].obj = o
      BY <1>7, <2>1, <3>1 DEF UpComes
    <3> QED BY <1>4, <2>1, <3>1 DEF UpComes
  <2>2. ASSUME DownComes(e, o), c.up PROVE DownComes(e, o)'
    <3>1. CASE \E i \in 1..Len(calls[e]) :
                 ~calls[e][i].up /\ calls[e][i].obj = o
      BY <1>7, <2>2, <3>1 DEF DownComes
    <3> QED BY <1>4, <2>2, <3>1 DEF DownComes
  <2> QED BY <2>1, <2>2
<1>10. HandlesDue'
  <2> SUFFICES ASSUME NEW f \in Envs, NEW q \in RefCounted, state[f] = "live"
               PROVE  HandleDue(f, q)'
    BY <1>4 DEF HandlesDue
  <2>1. HandleDue(f, q)
    BY DEF HandleInv, HandlesDue
  <2>2. CASE f # e \/ q # o
    BY <1>4, <1>5, <1>8, <2>1, <2>2, Members DEF HandleDue
  <2>3. CASE f = e /\ q = o
    <3>1. HasObject(e, o) => refs[o] > 0
      BY Shared DEF HandleInv, SharedIsCounted
    <3>2. CASE c.up
      <4>1. ref'[e][o] = "weak" => refs[o] <= 1
        BY <1>5, <3>2 DEF Settled, TryGetObject
      <4>2. ref'[e][o] = "strong" /\ refs[o] <= 1 => ref[e][o] = "strong"
        BY <1>5, <3>2 DEF Settled, TryGetObject
      <4>3. ref[e][o] = "strong" /\ refs[o] <= 1 => DownComes(e, o)'
        BY <1>9, <2>1, <2>3, <3>2 DEF HandleDue
      <4>4. refs' = refs
        BY <1>4
      <4> QED BY <1>5, <2>3, <4>1, <4>2, <4>3, <4>4 DEF HandleDue
    <3>3. CASE ~c.up
      <4>1. ref'[e][o] = "strong" => refs[o] > 1
        BY <1>5, <3>1, <3>3 DEF Settled, TryGetObject, HasObject
      <4>2. ref'[e][o] = "weak" /\ refs[o] > 1 => ref[e][o] = "weak"
        BY <1>5, <3>3 DEF Settled, TryGetObject
      <4> QED BY <1>4, <1>5, <1>9, <2>1, <2>3, <3>3, <4>1, <4>2 DEF HandleDue
    <3> QED BY <3>2, <3>3
  <2> QED BY <2>2, <2>3
<1>11. BindingIsStrong'
  BY <1>4, <1>5, Members DEF HandleInv, BindingIsStrong
<1> QED BY <1>10, <1>11

LEMMA TransferOutHandles ==
  ASSUME HandleInv, NEW e \in Envs, NEW o \in Objects, TransferOut(e, o)
  PROVE  HandlesDue' /\ BindingIsStrong'
<1>1. at[e] = "idle" /\ UNCHANGED <<refs, owns, ref, calls, state, entered>>
  BY DEF TransferOut, Live, Idle
<1>2. Moved(e, "giving", o)
  BY <1>1, Going, Members, TypesOf DEF HandleInv, TransferOut, Step
<1>3. Calm
  BY <1>1, <1>2 DEF Moved, Calm
<1> QED BY <1>1, <1>3, CalmHandles

LEMMA GivenAwayHandles ==
  ASSUME HandleInv, NEW e \in Envs, NEW o \in Objects, at[e] = "giving",
         o = on[e], NEW s \in {"idle", "blocked"}, Moved(e, s, o),
         ref' = [ref EXCEPT ![e][o] = "none"],
         owns \ {<<e, o>>} \subseteq owns', UNCHANGED <<refs, calls, state>>
  PROVE  HandlesDue' /\ BindingIsStrong'
<1>1. Calm
  BY DEF Moved, Calm
<1>2. /\ ref'[e][o] = "none"
      /\ \A g \in Envs, q \in Objects :
           g # e \/ q # o => ref'[g][q] = ref[g][q]
  BY TypesOf DEF HandleInv, EntryTypeOK
<1>3. at'[e] # "binding"
  BY Members DEF Moved
<1>4. \A g \in Envs : <<g, on[g]>> \in owns /\ at'[g] = "binding" =>
                        <<g, on[g]>> \in owns'
  BY <1>3
<1>5. \A g \in Envs, q \in RefCounted :
        \/ ref'[g][q] = ref[g][q]
        \/ /\ ref'[g][q] \in {"none", "empty"}
           /\ ~(at'[g] = "binding" /\ on'[g] = q)
  BY <1>2, <1>3, Members
<1> QED BY <1>1, <1>4, <1>5, CalmHandles

LEMMA TransferredHandles ==
  ASSUME HandleInv, NEW e \in Envs,
         TransferBlocks(e) \/ \E f \in Envs : Transferred(e, f)
  PROVE  HandlesDue' /\ BindingIsStrong'
<1>1. e \in Actors /\ at[e] = "giving" /\ entered' = entered
  BY Members DEF Transferred, TransferBlocks
<1> PICK o \in Objects : o = on[e]
  BY <1>1, TypesOf DEF HandleInv, ActorTypeOK
<1>2. /\ ref' = [ref EXCEPT ![e][o] = "none"]
      /\ owns \ {<<e, o>>} \subseteq owns' /\ UNCHANGED <<refs, calls, state>>
  BY DEF Transferred, TransferBlocks
<1>3. PICK s \in {"idle", "blocked"} : Moved(e, s, o)
  <2>1. Rest(e) \/ Go(e, "blocked", o)
    BY DEF Transferred, TransferBlocks
  <2>2. Moved(e, "idle", NoObject) \/ Moved(e, "blocked", o)
    BY <1>1, <2>1, Resting, Going, TypesOf DEF HandleInv, Step
  <2> QED BY <2>2 DEF Moved
<1> QED BY <1>1, <1>2, <1>3, GivenAwayHandles

LEMMA TransferInHandles ==
  ASSUME HandleInv, ObjectInv', NEW f \in Envs, NEW m \in mail,
         TransferIn(f, m)
  PROVE  HandlesDue' /\ BindingIsStrong'
<1> PICK o \in Objects : o = m.obj
  BY TypesOf DEF HandleInv, CountTypeOK, Letter
<1>1. /\ at[f] = "idle" /\ f \in Actors
      /\ owns' = IF o \in RefCounted THEN owns \cup {<<f, o>>} ELSE owns
      /\ UNCHANGED <<calls, state, at, on>>
  BY Members DEF TransferIn, Live, Idle
<1>2. /\ \A q \in RefCounted \ {o} : refs'[q] = refs[q]
      /\ o \in RefCounted => refs[o] \in Nat /\ refs'[o] <= refs[o]
  <2>1. refs' = IF o \in RefCounted /\ HasObject(f, o)
                  THEN [refs EXCEPT ![o] = @ - 1] ELSE refs
    BY DEF TransferIn
  <2>2. refs \in [RefCounted -> Nat]
    BY TypesOf DEF HandleInv, CountTypeOK
  <2>3. CASE o \in RefCounted /\ HasObject(f, o)
    BY <2>1, <2>2, <2>3
  <2>4. CASE ~(o \in RefCounted /\ HasObject(f, o))
    BY <2>1, <2>2, <2>4
  <2> QED BY <2>3, <2>4
<1>3. /\ ref'[f][o] # "none"
      /\ ref'[f][o] = ref[f][o] \/ ref'[f][o] = "strong"
      /\ \A g \in Envs, q \in Objects :
           g # f \/ q # o => ref'[g][q] = ref[g][q]
  <2>1. ref' = IF HasObject(f, o) THEN ref
               ELSE [ref EXCEPT ![f][o] = "strong"]
    BY DEF TransferIn
  <2>2. ref \in [Envs -> [Objects -> {"none", "empty", "weak", "strong"}]]
    BY TypesOf DEF HandleInv, EntryTypeOK
  <2>3. CASE HasObject(f, o)
    BY <2>1, <2>3 DEF HasObject
  <2>4. CASE ~HasObject(f, o)
    BY <2>1, <2>2, <2>4
  <2> QED BY <2>3, <2>4
<1>4. o \in RefCounted => refs'[o] > 1
  <2>1. o \in RefCounted => <<f, o>> \in owns'
    BY <1>1
  <2> QED BY <1>1, <1>3, <2>1, SharedNext DEF SharedIsCounted, HasObject
<1>5. \A g \in Envs, q \in RefCounted : Respects(g, q)
  <2> SUFFICES ASSUME NEW g \in Envs, NEW q \in RefCounted
               PROVE  Respects(g, q)
    OBVIOUS
  <2>1. CASE q # o
    BY <1>1, <1>2, <1>3, <2>1, Members DEF Respects
  <2>2. CASE q = o
    <3>1. ref'[g][o] = ref[g][o] \/ ref'[g][o] = "strong"
      BY <1>3
    <3>2. refs'[o] \in Nat
      BY <2>2, TypesOf DEF ObjectInv, ObjectTypeOK
    <3> QED BY <1>1, <1>2, <1>4, <2>2, <3>1, <3>2 DEF Respects
  <2> QED BY <2>1, <2>2
<1>6. HandlesDue'
  <2>1. CallsStay
    BY <1>1 DEF CallsStay
  <2> QED BY <1>5, <2>1, DueStays DEF HandleInv
<1>7. BindingIsStrong'
  <2>1. owns \subseteq owns'
    BY <1>1
  <2> QED BY <1>1, <1>3, <2>1, Members DEF HandleInv, BindingIsStrong
<1> QED BY <1>6, <1>7

-----------------------------------------------------------------------------
LEMMA HandleInit == Init => HandleInv
<1> SUFFICES ASSUME Init PROVE HandleInv
  OBVIOUS
<1>1. HandlesDue
  BY Members DEF Init, HandlesDue, HandleDue
<1>2. BindingIsStrong
  BY Members DEF Init, BindingIsStrong
<1> QED BY <1>1, <1>2, InvInit DEF HandleInv

LEMMA HandleStep ==
  ASSUME HandleInv, [Next]_vars
  PROVE  HandleInv'
<1> DEFINE Goal == HandlesDue' /\ BindingIsStrong'
<1>1. ObjectInv'
  BY InvStep DEF HandleInv
<1>2. ASSUME NEW x \in Actors, ThreadStep(x) PROVE Goal
  <2>1. ASSUME NEW o \in Objects, Allocate(x, o) PROVE Goal
    BY <2>1, AllocateHandles
  <2>2. ASSUME NEW o \in RefCounted, Reference(x, o) \/ Unreference(x, o)
        PROVE  Goal
    BY <1>1, <2>2, ReferenceHandles, UnreferenceHandles
  <2>3. ASSUME NEW o \in Plain, Free(x, o) PROVE Goal
    BY <2>3, FreeHandles
  <2>4. CASE ReferenceCallback(x)
    BY <2>4, ReferenceCallbackHandles
  <2>5. ASSUME NEW e \in Envs, FreeCallback(x, e) \/ LeaveFreeCallback(x, e)
        PROVE  Goal
    BY <2>5, FreeCallbackHandles, LeaveFreeCallbackHandles
  <2>6. CASE Deleted(x)
    BY <2>6, DeletedHandles
  <2>7. ASSUME NEW m \in mail, DropMessage(x, m) PROVE Goal
    BY <1>1, <2>7, DropMessageHandles
  <2> QED BY <1>2, <2>1, <2>2, <2>3, <2>4, <2>5, <2>6, <2>7 DEF ThreadStep
<1>3. ASSUME NEW e \in Envs, EnvStep(e) PROVE Goal
  <2>1. ASSUME NEW o \in Objects, NEW owned \in BOOLEAN, Bind(e, o, owned)
        PROVE  Goal
    BY <2>1, BindHandles
  <2>2. CASE BindInstance(e)
    BY <2>2, BindInstanceHandles
  <2>3. ASSUME NEW o \in RefCounted, Collect(e, o) \/ SecondPass(e, o)
        PROVE  Goal
    BY <1>1, <2>3, CollectHandles, SecondPassHandles
  <2>4. ASSUME NEW o \in Objects, Crossbind(e, o) \/ DisposeObject(e, o)
        PROVE  Goal
    BY <1>1, <2>4, BindHandles, DisposeObjectHandles
  <2>5. CASE ExecAsyncCall(e)
    BY <2>5, ExecAsyncCallHandles
  <2>6. CASE Dispose(e) \/ StartCleanup(e) \/ DisposeDone(e)
    BY <2>6, DisposeHandles
  <2>7. ASSUME NEW o \in Objects, TransferOut(e, o) PROVE Goal
    BY <2>7, TransferOutHandles
  <2>10. CASE TransferBlocks(e) \/ \E f \in Envs : Transferred(e, f)
    BY <2>10, TransferredHandles
  <2>8. ASSUME NEW m \in mail, TransferIn(e, m) PROVE Goal
    BY <1>1, <2>8, TransferInHandles
  <2>9. /\ \A o \in Objects : Bind(e, o, FALSE) => Goal
        /\ \A o \in Plain : Bind(e, o, TRUE) => Goal
    BY <2>1, Members
  <2> QED BY <1>3, <2>2, <2>3, <2>4, <2>5, <2>6, <2>7, <2>8, <2>9, <2>10
          DEF EnvStep
<1>4. CASE UNCHANGED vars
  <2>1. UNCHANGED <<refs, owns, ref, calls, state, at, on>>
    BY <1>4 DEF vars
  <2>2. Calm
    BY <2>1 DEF Calm
  <2>3. Goal
    BY <2>1, <2>2, CalmHandles
  <2> QED BY <1>1, <2>3 DEF HandleInv
<1> QED BY <1>1, <1>2, <1>3, <1>4 DEF Next, HandleInv

(***************************************************************************)
(* A handle that does not fit the count of its object has a call to come,  *)
(* in async_calls_ or in a thread on its way to the callbacks, that will.  *)
(***************************************************************************)
THEOREM HandleInvariant ==
  Spec => []HandleInv
<1>1. HandleInv /\ [Next]_vars => HandleInv'
  BY HandleStep
<1> QED BY <1>1, HandleInit, PTL DEF Spec

(***************************************************************************)
(* So when no call for an object is on its way, the handle of its          *)
(* JavaScript object is strong exactly if somebody else holds a reference. *)
(***************************************************************************)
THEOREM HandleAlwaysFollowsCount ==
  Spec => []HandleFollowsCount
<1>1. HandleInv => HandleFollowsCount
  <2> SUFFICES ASSUME HandleInv, NEW e \in Envs, NEW o \in RefCounted,
                      state[e] = "live", TryGetObject(e, o), ~OnItsWay(e, o)
               PROVE  ref[e][o] = "strong" <=> refs[o] > 1
    BY DEF HandleFollowsCount
  <2>1. HandleDue(e, o)
    BY DEF HandleInv, HandlesDue
  <2>2. ~UpComes(e, o) /\ ~DownComes(e, o)
    BY DEF OnItsWay, UpComes, DownComes
  <2>3. ref[e][o] \in {"weak", "strong"} /\ refs[o] \in Nat
    BY TypesOf, Members
       DEF HandleInv, EntryTypeOK, CountTypeOK, TryGetObject
  <2> QED BY <2>1, <2>2, <2>3 DEF HandleDue
<1> QED BY <1>1, HandleInvariant, PTL
=============================================================================
