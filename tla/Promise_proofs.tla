--------------------------- MODULE Promise_proofs ---------------------------
(***************************************************************************)
(* Theorems about the promises of Concurrent.pmod: Promise, for every set  *)
(* of threads and callbacks and every program, and AggregatedPromise, for  *)
(* every number of dependencies, all limits and modes.                     *)
(***************************************************************************)
EXTENDS Promise, AggregatedPromise, FiniteSetTheorems, TLAPS

-----------------------------------------------------------------------------
(* Stacks of frames.                                                       *)

\* What two sequences hold, the sequence of both holds.
LEMMA Concatenated ==
  ASSUME NEW s \in Seq(AllFrames), NEW r \in Seq(AllFrames)
  PROVE  /\ s \o r \in Seq(AllFrames)
         /\ ToSet(s \o r) = ToSet(s) \cup ToSet(r)
         /\ \A cb : InFrames(s \o r, cb) <=> InFrames(s, cb) \/ InFrames(r, cb)
         /\ \A cb : Alone(s \o r, cb) <=>
                      /\ Alone(s, cb) /\ Alone(r, cb)
                      /\ ~(InFrames(s, cb) /\ InFrames(r, cb))
<1>1. /\ s \o r \in Seq(AllFrames)
      /\ Len(s \o r) = Len(s) + Len(r)
      /\ \A i \in 1..Len(s) : (s \o r)[i] = s[i]
      /\ \A i \in 1..Len(r) : (s \o r)[Len(s) + i] = r[i]
  OBVIOUS
<1>2. /\ DOMAIN s = 1..Len(s) /\ DOMAIN r = 1..Len(r) /\ DOMAIN (s \o r) = 1..(Len(s) + Len(r))
      /\ Len(s) \in Nat /\ Len(r) \in Nat
  BY <1>1
<1> DEFINE c == s \o r
<1> HIDE DEF c
<1>3. /\ \A i \in DOMAIN s : i \in DOMAIN c /\ c[i] = s[i]
      /\ \A i \in DOMAIN r : Len(s) + i \in DOMAIN c /\ c[Len(s) + i] = r[i]
      /\ \A i \in DOMAIN c : i \in DOMAIN s \/ \E j \in DOMAIN r : i = Len(s) + j
  <2>1. \A i \in DOMAIN c : i \in DOMAIN s \/ (i - Len(s) \in DOMAIN r /\ i = Len(s) + (i - Len(s)))
    BY <1>2 DEF c
  <2> QED  BY <1>1, <1>2, <2>1 DEF c
<1>4. ToSet(c) = ToSet(s) \cup ToSet(r)
  BY <1>3 DEF ToSet
<1>5. ASSUME NEW cb
      PROVE  /\ InFrames(c, cb) <=> InFrames(s, cb) \/ InFrames(r, cb)
             /\ Alone(c, cb) <=> /\ Alone(s, cb) /\ Alone(r, cb)
                                 /\ ~(InFrames(s, cb) /\ InFrames(r, cb))
  <2>1. InFrames(c, cb) <=> InFrames(s, cb) \/ InFrames(r, cb)
    BY <1>3 DEF InFrames
  <2>2. ASSUME Alone(c, cb)
        PROVE  Alone(s, cb) /\ Alone(r, cb) /\ ~(InFrames(s, cb) /\ InFrames(r, cb))
    <3>1. Alone(s, cb)
      BY <1>3, <2>2 DEF Alone
    <3>2. Alone(r, cb)
      <4> SUFFICES ASSUME NEW i \in DOMAIN r, NEW j \in DOMAIN r, Holds(r[i], cb), Holds(r[j], cb)
                   PROVE  i = j
        BY DEF Alone
      <4>1. Len(s) + i = Len(s) + j
        BY <1>3, <2>2 DEF Alone
      <4> QED  BY <1>2, <4>1
    <3>3. ASSUME NEW i \in DOMAIN s, NEW j \in DOMAIN r, Holds(s[i], cb), Holds(r[j], cb)
          PROVE  FALSE
      <4>1. i = Len(s) + j
        BY <1>3, <2>2, <3>3 DEF Alone
      <4> QED  BY <1>2, <4>1
    <3> QED  BY <3>1, <3>2, <3>3 DEF InFrames
  <2>3. ASSUME Alone(s, cb), Alone(r, cb), ~(InFrames(s, cb) /\ InFrames(r, cb))
        PROVE  Alone(c, cb)
    <3> SUFFICES ASSUME NEW i \in DOMAIN c, NEW j \in DOMAIN c, Holds(c[i], cb), Holds(c[j], cb)
                 PROVE  i = j
      BY DEF Alone
    <3>1. CASE i \in DOMAIN s /\ j \in DOMAIN s
      BY <1>3, <2>3, <3>1 DEF Alone
    <3>2. ASSUME NEW x \in DOMAIN r, NEW y \in DOMAIN r, i = Len(s) + x, j = Len(s) + y
          PROVE  i = j
      BY <1>3, <2>3, <3>2 DEF Alone
    <3>3. ~(i \in DOMAIN s /\ \E y \in DOMAIN r : j = Len(s) + y)
      BY <1>3, <2>3 DEF InFrames
    <3>4. ~(j \in DOMAIN s /\ \E x \in DOMAIN r : i = Len(s) + x)
      BY <1>3, <2>3 DEF InFrames
    <3> QED  BY <1>3, <3>1, <3>2, <3>3, <3>4
  <2> QED  BY <2>1, <2>2, <2>3
<1> QED  BY <1>1, <1>4, <1>5 DEF c

\* Sequences of no frame, of one and of two.
LEMMA FewFrames ==
  /\ ToSet(<<>>) = {} /\ \A cb : ~InFrames(<<>>, cb) /\ Alone(<<>>, cb)
  /\ \A x : ToSet(<<x>>) = {x} /\ \A cb : (InFrames(<<x>>, cb) <=> Holds(x, cb)) /\ Alone(<<x>>, cb)
  /\ \A x, y : /\ ToSet(<<x, y>>) = {x, y}
               /\ \A cb : /\ InFrames(<<x, y>>, cb) <=> Holds(x, cb) \/ Holds(y, cb)
                          /\ Alone(<<x, y>>, cb) <=> ~(Holds(x, cb) /\ Holds(y, cb))
<1>1. ToSet(<<>>) = {} /\ \A cb : ~InFrames(<<>>, cb) /\ Alone(<<>>, cb)
  BY DEF ToSet, InFrames, Alone
<1>2. ASSUME NEW x
      PROVE  ToSet(<<x>>) = {x} /\ \A cb : (InFrames(<<x>>, cb) <=> Holds(x, cb)) /\ Alone(<<x>>, cb)
  <2>1. DOMAIN <<x>> = {1} /\ <<x>>[1] = x
    OBVIOUS
  <2> QED  BY <2>1 DEF ToSet, InFrames, Alone
<1>3. ASSUME NEW x, NEW y
      PROVE  /\ ToSet(<<x, y>>) = {x, y}
             /\ \A cb : /\ InFrames(<<x, y>>, cb) <=> Holds(x, cb) \/ Holds(y, cb)
                        /\ Alone(<<x, y>>, cb) <=> ~(Holds(x, cb) /\ Holds(y, cb))
  <2>1. DOMAIN <<x, y>> = {1, 2} /\ <<x, y>>[1] = x /\ <<x, y>>[2] = y
    OBVIOUS
  <2> QED  BY <2>1 DEF ToSet, InFrames, Alone
<1> QED  BY <1>1, <1>2, <1>3

Below(a) == IF stack[a] = <<>> THEN <<>> ELSE Tail(stack[a])
TopHolds(a, cb) == stack[a] # <<>> /\ Holds(Top(a), cb)

\* A step of a replaces its top frame, if it has one, by the frames new.
NewTop(a, new) == stack' = [stack EXCEPT ![a] = new \o Below(a)]

Stacks == stack \in [Actors -> Seq(AllFrames)]

\* The stack is its top and what is below.
LEMMA TopAndBelow ==
  ASSUME Stacks, NEW a \in Actors
  PROVE  /\ Below(a) \in Seq(AllFrames)
         /\ ToSet(Below(a)) \subseteq ToSet(stack[a])
         /\ stack[a] # <<>> => Top(a) \in AllFrames /\ Top(a) \in Frames
         /\ \A cb : InFrames(stack[a], cb) <=> TopHolds(a, cb) \/ InFrames(Below(a), cb)
         /\ \A cb : Alone(stack[a], cb) =>
              Alone(Below(a), cb) /\ ~(TopHolds(a, cb) /\ InFrames(Below(a), cb))
<1>1. stack[a] \in Seq(AllFrames)
  BY DEF Stacks
<1>2. CASE stack[a] = <<>>
  BY <1>2, FewFrames DEF Below, TopHolds
<1>3. CASE stack[a] # <<>>
  <2> DEFINE top == Top(a)
             one == <<top>>
  <2>1. Below(a) = Tail(stack[a]) /\ Below(a) \in Seq(AllFrames) /\ top \in AllFrames
    BY <1>1, <1>3 DEF Below, Top
  <2>2. one \in Seq(AllFrames) /\ stack[a] = one \o Below(a)
    BY <1>1, <1>3, <2>1 DEF Top
  <2>3. /\ ToSet(one) = {top}
        /\ \A cb : (InFrames(one, cb) <=> Holds(top, cb)) /\ Alone(one, cb)
    BY FewFrames
  <2>4. top \in Frames
    <3>1. 1 \in DOMAIN stack[a] /\ top = stack[a][1]
      BY <1>1, <1>3 DEF Top
    <3> QED  BY <3>1 DEF Frames, ToSet
  <2> HIDE DEF top, one
  <2>5. /\ ToSet(stack[a]) = ToSet(one) \cup ToSet(Below(a))
        /\ \A cb : InFrames(stack[a], cb) <=> InFrames(one, cb) \/ InFrames(Below(a), cb)
        /\ \A cb : Alone(stack[a], cb) <=>
             /\ Alone(one, cb) /\ Alone(Below(a), cb)
             /\ ~(InFrames(one, cb) /\ InFrames(Below(a), cb))
    <3> DEFINE r == Below(a)
    <3> HIDE DEF r
    <3>1. one \in Seq(AllFrames) /\ r \in Seq(AllFrames)
      BY <2>1, <2>2 DEF r
    <3>2. /\ ToSet(one \o r) = ToSet(one) \cup ToSet(r)
          /\ \A cb : InFrames(one \o r, cb) <=> InFrames(one, cb) \/ InFrames(r, cb)
          /\ \A cb : Alone(one \o r, cb) <=>
               Alone(one, cb) /\ Alone(r, cb) /\ ~(InFrames(one, cb) /\ InFrames(r, cb))
      BY <3>1, Concatenated
    <3>3. stack[a] = one \o r
      BY <2>2 DEF r
    <3> QED  BY <3>2, <3>3 DEF r
  <2> QED  BY <1>3, <2>1, <2>3, <2>4, <2>5 DEF TopHolds, top
<1> QED  BY <1>2, <1>3

\* The stacks after a step.
LEMMA NewTopFacts ==
  ASSUME Stacks, NEW a \in Actors, NEW new \in Seq(AllFrames), NewTop(a, new)
  PROVE  /\ Stacks'
         /\ \A b \in Actors \ {a} : stack'[b] = stack[b]
         /\ Frames' \subseteq Frames \cup ToSet(new)
         /\ \A cb : InFrames(stack'[a], cb) <=> InFrames(new, cb) \/ InFrames(Below(a), cb)
         /\ \A cb : Alone(stack'[a], cb) <=>
              /\ Alone(new, cb) /\ Alone(Below(a), cb)
              /\ ~(InFrames(new, cb) /\ InFrames(Below(a), cb))
<1>1. Below(a) \in Seq(AllFrames) /\ ToSet(Below(a)) \subseteq ToSet(stack[a])
  BY TopAndBelow
<1>2. stack'[a] = new \o Below(a) /\ \A b \in Actors \ {a} : stack'[b] = stack[b]
  BY DEF NewTop, Stacks
<1>3. /\ stack'[a] \in Seq(AllFrames)
      /\ ToSet(stack'[a]) = ToSet(new) \cup ToSet(Below(a))
      /\ \A cb : InFrames(stack'[a], cb) <=> InFrames(new, cb) \/ InFrames(Below(a), cb)
      /\ \A cb : Alone(stack'[a], cb) <=>
           /\ Alone(new, cb) /\ Alone(Below(a), cb)
           /\ ~(InFrames(new, cb) /\ InFrames(Below(a), cb))
  BY <1>1, <1>2, Concatenated
<1>4. Stacks'
  BY <1>3 DEF NewTop, Stacks
<1>5. Frames' \subseteq Frames \cup ToSet(new)
  <2> SUFFICES ASSUME NEW b \in Actors, NEW fr \in ToSet(stack'[b])
               PROVE  fr \in Frames \cup ToSet(new)
    BY DEF Frames
  <2>1. CASE b = a
    BY <1>1, <1>3, <2>1 DEF Frames
  <2>2. CASE b # a
    BY <1>2, <2>2 DEF Frames
  <2> QED  BY <2>1, <2>2
<1> QED  BY <1>2, <1>3, <1>4, <1>5

\* The ways in which the stacks change.
LEMMA StackSteps ==
  ASSUME Stacks, NEW a \in Actors
  PROVE  /\ stack[a] # <<>> /\ Return(a) => NewTop(a, <<>>)
         /\ \A x : stack[a] # <<>> /\ Become(a, x) => NewTop(a, <<x>>)
         /\ \A x, y : stack[a] # <<>> /\ stack' = [stack EXCEPT ![a] = <<x, y>> \o Tail(@)]
                        => NewTop(a, <<x, y>>)
         /\ \A x : stack[a] = <<>> /\ Push(a, x) => NewTop(a, <<x>>)
<1>1. stack[a] # <<>> => Tail(stack[a]) \in Seq(AllFrames) /\ <<>> \o Tail(stack[a]) = Tail(stack[a])
  BY DEF Stacks
<1>2. stack[a] # <<>> /\ Return(a) => NewTop(a, <<>>)
  BY <1>1 DEF Return, NewTop, Below
<1> QED  BY <1>2 DEF Become, Push, NewTop, Below

-----------------------------------------------------------------------------
(* What a step leaves as it is.                                            *)

FieldType ==
  /\ state \in [Futures -> NO_FUTURE..REJECTION_REPORTED]
  /\ result \in [Futures -> Results \cup {None}]
  /\ success_cbs \in [Futures -> Seq(OnSuccess)]
  /\ failure_cbs \in [Futures -> Seq(Callbacks \ OnSuccess)]
  /\ callout \in {"callnow", "call_out"}
  /\ timer \in {"none", "armed", "over"}
  /\ added \subseteq Callbacks
  /\ called \in [Callbacks -> Seq(Results)]
  /\ heard \subseteq Futures /\ complaints \subseteq Futures /\ destructed \subseteq Futures

Calls == {fr \in CallFrames \cup SignalFrames : fr.pc = "call"}

\* Every frame is about a future.
LEMMA FrameFields ==
  ASSUME NEW fr \in AllFrames
  PROVE  fr.fut \in Futures /\ fr.todo \in Seq(Callbacks)
<1>1. <<>> \in Seq(Callbacks) /\ P \in Futures /\ T \in Futures
  BY DEF Futures
<1> QED  BY <1>1 DEF AllFrames, TryFrames, FinaliseFrames, OnFrames, GetFrames, TimeoutFrames,
              CallFrames, SignalFrames

\* A call_out that holds a callback is a frame to be.
LEMMA CallsAreFrames == Calls \subseteq AllFrames
BY DEF Calls, AllFrames

\* The type invariant, part by part.
LEMMA Types == StackInv /\ FieldType => TypeOK
<1> SUFFICES ASSUME StackInv, FieldType
             PROVE  \A fr \in Frames \cup queue : fr \in AllFrames
  BY FrameFields DEF TypeOK, FieldType
<1>1. queue \subseteq AllFrames
  BY CallsAreFrames DEF StackInv, Calls
<1>2. ASSUME NEW b \in Actors, NEW fr \in ToSet(stack[b])
      PROVE  fr \in AllFrames
  BY <1>2 DEF StackInv, ToSet
<1> QED  BY <1>1, <1>2 DEF Frames

\* The same after a step.
LEMMA TypesNext == StackInv' /\ FieldType' => TypeOK'
<1> SUFFICES ASSUME StackInv', FieldType'
             PROVE  \A fr \in (Frames \cup queue)' : fr \in AllFrames
  BY FrameFields DEF TypeOK, FieldType
<1>1. queue' \subseteq AllFrames
  BY CallsAreFrames DEF StackInv, Calls
<1>2. ASSUME NEW b \in Actors, NEW fr \in ToSet(stack'[b])
      PROVE  fr \in AllFrames
  BY <1>2 DEF StackInv, ToSet
<1> QED  BY <1>1, <1>2 DEF Frames

\* Frames are of the types.
LEMMA FramesTyped == StackInv => Frames \cup queue \subseteq AllFrames
<1> SUFFICES ASSUME StackInv
             PROVE  Frames \cup queue \subseteq AllFrames
  OBVIOUS
<1>1. queue \subseteq AllFrames
  BY CallsAreFrames DEF StackInv, Calls
<1>2. ASSUME NEW b \in Actors, NEW fr \in ToSet(stack[b])
      PROVE  fr \in AllFrames
  BY <1>2 DEF StackInv, ToSet
<1> QED  BY <1>1, <1>2 DEF Frames

\* No future goes away; the promise keeps its outcome.
Steady ==
  /\ destructed' = destructed /\ heard \subseteq heard'
  /\ timer # "none" => timer' # "none"
  /\ P \notin destructed /\ state[P] > PENDING =>
       /\ state'[P] > PENDING /\ (state'[P] = FULFILLED <=> state[P] = FULFILLED)
       /\ result'[P] = result[P]

\* A frame finds what it found before.
LEMMA FrameKept ==
  ASSUME Steady, NEW fr \in AllFrames, FrameNow(fr), Unmentioned(fr)
  PROVE  FrameNow(fr)' /\ Unmentioned(fr)'
<1>1. Unmentioned(fr)'
  BY DEF Unmentioned, Mentions, Steady
<1>2. CASE fr.fut = P /\ P \notin destructed
  <2>1. \A cb : For(cb) => For(cb)' /\ result'[P] = result[P]
    BY <1>2 DEF For, Steady
  <2> QED  BY <1>1, <1>2, <2>1 DEF FrameNow, Steady
<1>3. CASE fr.fut = P /\ P \in destructed
  <2>1. fr.fn = "do_signal_call_callback"
    BY <1>3 DEF Unmentioned, Mentions
  <2> QED  BY <1>1, <1>3, <2>1 DEF FrameNow, Steady
<1>4. CASE fr.fut # P
  <2>1. CASE fr \in FinaliseFrames(T)
    <3>1. fr.fn = "finalise" /\ fr.todo = <<>> /\ ToSet(fr.todo) = {}
      BY <2>1, FewFrames DEF FinaliseFrames, FrameNow
    <3> QED  BY <1>1, <3>1 DEF FrameNow
  <2>2. CASE fr \notin FinaliseFrames(T)
    <3>1. fr.fn \in {"try", "get"}
      BY <1>4, <2>2 DEF AllFrames, TryFrames, FinaliseFrames, OnFrames, GetFrames, TimeoutFrames,
                        CallFrames, SignalFrames, Futures
    <3> QED  BY <1>1, <3>1 DEF FrameNow
  <2> QED  BY <2>1, <2>2
<1> QED  BY <1>1, <1>2, <1>3, <1>4

\* The frames after a step: the old ones, and new ones that are to be looked at.
LEMMA FrameStep ==
  ASSUME IInv, NEW a \in Actors, NEW new \in Seq(AllFrames), NewTop(a, new), Steady,
         NEW Q \in SUBSET Calls, queue' \subseteq queue \cup Q,
         \A fr \in ToSet(new) \cup Q : FrameNow(fr)' /\ Unmentioned(fr)'
  PROVE  StackInv' /\ FrameInv'
<1>1. Stacks
  BY DEF IInv, StackInv, Stacks
<1>2. Stacks' /\ Frames' \subseteq Frames \cup ToSet(new)
  BY <1>1, NewTopFacts
<1>3. StackInv'
  BY <1>2 DEF IInv, StackInv, Stacks, Calls
<1>4. FrameInv'
  <2> SUFFICES ASSUME NEW fr \in Frames' \cup queue'
               PROVE  FrameNow(fr)' /\ Unmentioned(fr)'
    BY DEF FrameInv
  <2>1. CASE fr \in Frames \cup queue
    <3>1. fr \in AllFrames /\ FrameNow(fr) /\ Unmentioned(fr)
      BY <2>1, FramesTyped DEF IInv, FrameInv
    <3> QED  BY <3>1, FrameKept
  <2> QED  BY <1>2, <2>1
<1> QED  BY <1>3, <1>4

-----------------------------------------------------------------------------
(* Where a callback is.                                                    *)

\* With another frame than the top one of a.
Elsewhere(a, cb) ==
  InFrames(Below(a), cb) \/ \E b \in Actors \ {a} : InFrames(stack[b], cb)

\* Before a step.
LEMMA PlacesBefore ==
  ASSUME IInv, NEW a \in Actors, NEW cb \in Callbacks
  PROVE  /\ Elsewhere(a, cb) => ~TopHolds(a, cb)
         /\ Elsewhere(a, cb) \/ TopHolds(a, cb) => ~InQueue(cb) /\ ~InList(cb) /\ ~WasCalled(cb)
         /\ InQueue(cb) => ~InList(cb) /\ ~WasCalled(cb)
         /\ InList(cb) => ~WasCalled(cb)
         /\ TopHolds(a, cb) => (Adds(Top(a)) <=> cb \notin added)
         /\ InQueue(cb) \/ InList(cb) \/ WasCalled(cb) => cb \in added
<1>1. Stacks /\ PlaceInv(cb) /\ AddedInv(cb)
  BY DEF IInv, StackInv, Stacks, OnceInv
<1>2. /\ InFrames(stack[a], cb) <=> TopHolds(a, cb) \/ InFrames(Below(a), cb)
      /\ ~(TopHolds(a, cb) /\ InFrames(Below(a), cb))
      /\ TopHolds(a, cb) => Top(a) \in Frames
  BY <1>1, TopAndBelow DEF PlaceInv, TopHolds
<1>3. Elsewhere(a, cb) \/ TopHolds(a, cb) => InStacks(cb)
  BY <1>2 DEF Elsewhere, InStacks
<1>4. Elsewhere(a, cb) => ~TopHolds(a, cb)
  BY <1>1, <1>2 DEF Elsewhere, PlaceInv
<1>5. TopHolds(a, cb) => (Adds(Top(a)) <=> cb \notin added)
  BY <1>1, <1>2 DEF AddedInv, TopHolds
<1> QED  BY <1>1, <1>3, <1>4, <1>5 DEF PlaceInv, AddedInv

\* After a step that keeps cb in one place.
LEMMA PlacesAfter ==
  ASSUME IInv, NEW a \in Actors, NEW new \in Seq(AllFrames), NewTop(a, new), NEW cb \in Callbacks,
         Alone(new, cb),
         (\/ InFrames(new, cb) \/ InQueue(cb)' \/ InList(cb)' \/ WasCalled(cb)'
          \/ ~(cb \in added <=> cb \in added')) => ~Elsewhere(a, cb),
         InFrames(new, cb) => ~InQueue(cb)' /\ ~InList(cb)' /\ ~WasCalled(cb)',
         InQueue(cb)' => ~InList(cb)' /\ ~WasCalled(cb)',
         InList(cb)' => ~WasCalled(cb)',
         \A fr \in ToSet(new) : Holds(fr, cb) => (Adds(fr) <=> cb \notin added'),
         InQueue(cb)' \/ InList(cb)' \/ WasCalled(cb)' => cb \in added'
  PROVE  PlaceInv(cb)' /\ AddedInv(cb)'
<1>1. Stacks /\ PlaceInv(cb) /\ AddedInv(cb)
  BY DEF IInv, StackInv, Stacks, OnceInv
<1>2. /\ \A b \in Actors \ {a} : stack'[b] = stack[b]
      /\ InFrames(stack'[a], cb) <=> InFrames(new, cb) \/ InFrames(Below(a), cb)
      /\ Alone(stack'[a], cb) <=>
              /\ Alone(new, cb) /\ Alone(Below(a), cb)
              /\ ~(InFrames(new, cb) /\ InFrames(Below(a), cb))
  BY <1>1, NewTopFacts
<1>3. /\ InFrames(Below(a), cb) => InFrames(stack[a], cb)
      /\ Alone(Below(a), cb)
      /\ ToSet(Below(a)) \subseteq ToSet(stack[a])
  BY <1>1, TopAndBelow DEF PlaceInv
<1>4. \A b \in Actors : Alone(stack'[b], cb)
  BY <1>1, <1>2, <1>3 DEF PlaceInv, Elsewhere
<1>5. ASSUME NEW b \in Actors, NEW c \in Actors,
             InFrames(stack'[b], cb), InFrames(stack'[c], cb)
      PROVE  b = c
  BY <1>1, <1>2, <1>3, <1>5 DEF PlaceInv, Elsewhere
<1>6. InStacks(cb)' => InFrames(new, cb) \/ Elsewhere(a, cb)
  BY <1>2 DEF InStacks, Elsewhere
<1>7. PlaceInv(cb)'
  BY <1>4, <1>5, <1>6 DEF PlaceInv
<1>8. ASSUME NEW b \in Actors, NEW fr \in ToSet(stack'[b]), Holds(fr, cb)
      PROVE  Adds(fr) <=> cb \notin added'
  <2>1. CASE b = a
    <3>1. ToSet(stack'[a]) = ToSet(new) \cup ToSet(Below(a))
      <4>1. Below(a) \in Seq(AllFrames) /\ stack'[a] = new \o Below(a)
        BY <1>1, TopAndBelow DEF NewTop, Stacks
      <4> QED  BY <4>1, Concatenated
    <3>2. CASE fr \in ToSet(Below(a))
      <4>1. InFrames(Below(a), cb) /\ fr \in Frames
        BY <1>3, <1>8, <3>2 DEF InFrames, ToSet, Frames
      <4> QED  BY <1>1, <1>8, <4>1 DEF AddedInv, Elsewhere
    <3> QED  BY <1>8, <2>1, <3>1, <3>2
  <2>2. CASE b # a
    <3>1. InFrames(stack[b], cb) /\ fr \in Frames
      BY <1>2, <1>8, <2>2 DEF InFrames, ToSet, Frames
    <3> QED  BY <1>1, <1>8, <2>2, <3>1 DEF AddedInv, Elsewhere
  <2> QED  BY <2>1, <2>2
<1>9. AddedInv(cb)'
  BY <1>8 DEF AddedInv, Frames
<1> QED  BY <1>7, <1>9

\* A new frame of a may hold cb: the top frame did, or nothing does yet.
Nowhere(cb) == cb \notin added /\ \A b \in Actors : ~InFrames(stack[b], cb)
MayHold(a, fr, cb) ==
  \/ TopHolds(a, cb) /\ (Adds(fr) <=> Adds(Top(a)))
  \/ Nowhere(cb) /\ Adds(fr)

\* A step that leaves the promise, the lists and the call_outs alone.
LEMMA OnceStep ==
  ASSUME IInv, NEW a \in Actors, NEW new \in Seq(AllFrames), NewTop(a, new),
         UNCHANGED <<success_cbs, failure_cbs, queue, added, called>>,
         state'[P] > PENDING <=> state[P] > PENDING, FieldType',
         \A cb \in Callbacks :
           Alone(new, cb) /\ \A fr \in ToSet(new) : Holds(fr, cb) => MayHold(a, fr, cb)
  PROVE  OnceInv'
<1>1. state'[P] <= PENDING <=> state[P] <= PENDING
  BY DEF IInv, TypeOK, FieldType, Futures, NO_FUTURE, PENDING, REJECTION_REPORTED
<1>2. ASSUME NEW cb \in Callbacks
      PROVE  PlaceInv(cb)' /\ AddedInv(cb)'
  <2>1. /\ InQueue(cb)' <=> InQueue(cb)
        /\ InList(cb)' <=> InList(cb)
        /\ WasCalled(cb)' <=> WasCalled(cb)
    BY <1>1 DEF InQueue, InList, WasCalled
  <2>2. InFrames(new, cb) => \E fr \in ToSet(new) : Holds(fr, cb)
    BY DEF InFrames, ToSet
  <2>3. InFrames(new, cb) => TopHolds(a, cb) \/ Nowhere(cb)
    BY <2>2 DEF MayHold
  <2>4. \A fr \in ToSet(new) : Holds(fr, cb) => (Adds(fr) <=> cb \notin added')
    BY PlacesBefore DEF MayHold, Nowhere
  <2>5. Nowhere(cb) => ~Elsewhere(a, cb) /\ cb \notin added
    <3>1. InFrames(Below(a), cb) => InFrames(stack[a], cb)
      BY TopAndBelow DEF IInv, StackInv, Stacks
    <3> QED  BY <3>1 DEF Nowhere, Elsewhere
  <2> QED  BY <2>1, <2>3, <2>4, <2>5, PlacesBefore, PlacesAfter
<1> QED  BY <1>1, <1>2 DEF OnceInv, IInv

\* A step that changes the stack of a and nothing else.
LEMMA QuietStep ==
  ASSUME IInv, NEW a \in Actors, NEW new \in Seq(AllFrames), NewTop(a, new),
         UNCHANGED <<fields, queue, timer, history, callout, complaints, destructed>>,
         \A fr \in ToSet(new) : FrameNow(fr) /\ Unmentioned(fr),
         \A cb \in Callbacks :
           Alone(new, cb) /\ \A fr \in ToSet(new) : Holds(fr, cb) => MayHold(a, fr, cb)
  PROVE  IInv'
<1>1. /\ UNCHANGED <<state, result, success_cbs, failure_cbs, queue, timer, added, called, heard>>
      /\ UNCHANGED <<callout, complaints, destructed>>
  BY DEF fields, history
<1>2. Steady
  BY <1>1 DEF Steady
<1>3. \A fr \in ToSet(new) : FrameNow(fr)' /\ Unmentioned(fr)'
  BY <1>1 DEF FrameNow, Unmentioned, Mentions, For
<1>4. StackInv' /\ FrameInv'
  <2> DEFINE Q == {}
  <2> HIDE DEF Q
  <2>1. Q \in SUBSET Calls /\ queue' \subseteq queue \cup Q /\ ToSet(new) \cup Q = ToSet(new)
    BY <1>1 DEF Q
  <2> QED  BY <1>2, <1>3, <2>1, FrameStep
<1>5. FieldType'
  BY <1>1 DEF IInv, TypeOK, FieldType
<1>6. OnceInv'
  BY <1>1, <1>5, OnceStep
<1>7. FieldInv' /\ CalledInv' /\ RejectionHeard'
  BY <1>1 DEF IInv, FieldInv, CalledInv, RejectionHeard, For
<1> QED  BY <1>4, <1>5, <1>6, <1>7, TypesNext DEF IInv

\* The frames of each function.
LEMMA FrameKinds ==
  ASSUME NEW fr \in AllFrames
  PROVE  /\ fr.fn = "try" => fr \in TryFrames(P) \cup TryFrames(T)
         /\ fr.fn = "finalise" => fr \in FinaliseFrames(P) \cup FinaliseFrames(T)
         /\ fr.fn = "on" => fr \in OnFrames
         /\ fr.fn = "get" => fr \in GetFrames
         /\ fr.fn = "timeout" => fr \in TimeoutFrames
         /\ fr.fn = "do_call_callback" => fr \in CallFrames
         /\ fr.fn = "do_signal_call_callback" => fr \in SignalFrames
BY DEF AllFrames, TryFrames, FinaliseFrames, OnFrames, GetFrames, TimeoutFrames, CallFrames,
       SignalFrames

\* The frame that a is in.
LEMMA TopFrame ==
  ASSUME IInv, NEW a \in Actors, stack[a] # <<>>
  PROVE  Top(a) \in AllFrames /\ FrameNow(Top(a)) /\ Unmentioned(Top(a))
BY TopAndBelow DEF IInv, StackInv, Stacks, FrameInv

\* A method returns.
LEMMA QuietReturn ==
  ASSUME IInv, NEW a \in Actors, stack[a] # <<>>, Return(a),
         UNCHANGED <<fields, queue, timer, history, callout, complaints, destructed>>
  PROVE  IInv'
<1> DEFINE new == <<>>
<1>1. new \in Seq(AllFrames) /\ ToSet(new) = {} /\ \A cb : Alone(new, cb)
  BY FewFrames
<1>2. NewTop(a, new)
  BY StackSteps DEF IInv, StackInv, Stacks
<1> HIDE DEF new
<1> QED  BY <1>1, <1>2, QuietStep

\* A frame goes on as the frame x.
LEMMA QuietBecome ==
  ASSUME IInv, NEW a \in Actors, stack[a] # <<>>, NEW x \in AllFrames, Become(a, x),
         UNCHANGED <<fields, queue, timer, history, callout, complaints, destructed>>,
         FrameNow(x), Unmentioned(x),
         \A cb \in Callbacks : Holds(x, cb) => MayHold(a, x, cb)
  PROVE  IInv'
<1> DEFINE new == <<x>>
<1>1. new \in Seq(AllFrames) /\ ToSet(new) = {x} /\ \A cb : Alone(new, cb)
  BY FewFrames
<1>2. NewTop(a, new)
  BY StackSteps DEF IInv, StackInv, Stacks
<1> HIDE DEF new
<1> QED  BY <1>1, <1>2, QuietStep

\* A frame calls the frame x and goes on as y.
LEMMA QuietCall ==
  ASSUME IInv, NEW a \in Actors, stack[a] # <<>>, NEW x \in AllFrames, NEW y \in AllFrames,
         stack' = [stack EXCEPT ![a] = <<x, y>> \o Tail(@)],
         UNCHANGED <<fields, queue, timer, history, callout, complaints, destructed>>,
         FrameNow(x), Unmentioned(x), FrameNow(y), Unmentioned(y),
         \A cb \in Callbacks : /\ Holds(x, cb) => MayHold(a, x, cb)
                               /\ Holds(y, cb) => MayHold(a, y, cb)
                               /\ ~(Holds(x, cb) /\ Holds(y, cb))
  PROVE  IInv'
<1> DEFINE new == <<x, y>>
<1>1. new \in Seq(AllFrames) /\ ToSet(new) = {x, y} /\ \A cb \in Callbacks : Alone(new, cb)
  BY FewFrames
<1>2. NewTop(a, new)
  BY StackSteps DEF IInv, StackInv, Stacks
<1> HIDE DEF new
<1> QED  BY <1>1, <1>2, QuietStep

\* A method is called.
LEMMA QuietPush ==
  ASSUME IInv, NEW a \in Actors, stack[a] = <<>>, NEW x \in AllFrames, Push(a, x),
         UNCHANGED <<fields, queue, timer, history, callout, complaints, destructed>>,
         FrameNow(x), Unmentioned(x),
         \A cb \in Callbacks : Holds(x, cb) => MayHold(a, x, cb)
  PROVE  IInv'
<1> DEFINE new == <<x>>
<1>1. new \in Seq(AllFrames) /\ ToSet(new) = {x} /\ \A cb : Alone(new, cb)
  BY FewFrames
<1>2. NewTop(a, new)
  BY StackSteps DEF IInv, StackInv, Stacks
<1> HIDE DEF new
<1> QED  BY <1>1, <1>2, QuietStep

-----------------------------------------------------------------------------
(* The steps that change the stack only.                                   *)

\* A frame that settles f and has yet to look at it.
LEMMA SettlerFrame ==
  ASSUME NEW f \in Futures, f \notin destructed,
         NEW x \in TryFrames(f) \cup FinaliseFrames(f), x.todo = <<>>
  PROVE  x \in AllFrames /\ FrameNow(x) /\ Unmentioned(x) /\ \A cb : ~Holds(x, cb)
<1>1. x.fn \in {"try", "finalise"} /\ x.fut = f
  BY DEF TryFrames, FinaliseFrames
<1>2. x \in AllFrames
  BY DEF AllFrames, Futures
<1>3. ToSet(<<>>) = {} /\ IsInjective(<<>>)
  BY FewFrames DEF IsInjective
<1>4. FrameNow(x)
  BY <1>1, <1>3 DEF FrameNow
<1>5. Unmentioned(x)
  BY <1>1, <1>3 DEF Unmentioned, Mentions
<1>6. \A cb : ~Holds(x, cb)
  BY <1>1, <1>3 DEF Holds
<1> QED  BY <1>2, <1>4, <1>5, <1>6

\* try_success() and try_failure() after their test.
LEMMA TryStep ==
  ASSUME IInv, NEW a \in Actors, try(a)
  PROVE  IInv'
<1>1. /\ stack[a] # <<>> /\ Top(a).fn = "try"
      /\ UNCHANGED <<fields, queue, timer, history, callout, complaints, destructed>>
  BY DEF try, At
<1>2. CASE Return(a)
  BY <1>1, <1>2, QuietReturn
<1>3. CASE Become(a, [Top(a) EXCEPT !.fn = "finalise", !.pc = "lock"])
  <2> DEFINE fr == Top(a)
             x == [fr EXCEPT !.fn = "finalise", !.pc = "lock"]
  <2>1. fr \in TryFrames(P) \cup TryFrames(T) /\ Unmentioned(fr)
    BY <1>1, TopFrame, FrameKinds
  <2>2. fr.fut \in Futures /\ x \in FinaliseFrames(fr.fut) /\ x.todo = <<>>
    <3>1. ASSUME NEW f \in Futures, fr \in TryFrames(f)
          PROVE  fr.fut = f /\ x \in FinaliseFrames(f) /\ x.todo = <<>>
      <4>1. <<>> \in Seq(Callbacks)
        OBVIOUS
      <4> QED  BY <3>1, <4>1 DEF TryFrames, FinaliseFrames
    <3> QED  BY <2>1, <3>1 DEF Futures
  <2>3. fr.fut \notin destructed
    BY <1>1, <2>1 DEF Unmentioned, Mentions
  <2>4. x \in AllFrames /\ FrameNow(x) /\ Unmentioned(x) /\ \A cb : ~Holds(x, cb)
    BY <2>2, <2>3, SettlerFrame
  <2> HIDE DEF x
  <2> QED  BY <1>1, <1>3, <2>4, QuietBecome DEF x
<1> QED  BY <1>2, <1>3 DEF try

\* wait() and get() before the result.
LEMMA WaitStep ==
  ASSUME IInv, NEW a \in Actors, wait(a)
  PROVE  IInv'
<1>1. /\ stack[a] # <<>> /\ Top(a).fn = "get"
      /\ UNCHANGED <<fields, queue, timer, history, callout, complaints, destructed>>
      /\ \E pc_ \in {"lock", "sleep", "result"} : Goto(a, pc_)
  BY DEF wait, wait_test, wait_lock, At
<1>2. PICK pc_ \in {"lock", "sleep", "result"} : Goto(a, pc_)
  BY <1>1
<1> DEFINE fr == Top(a)
           x == [fr EXCEPT !.pc = pc_]
<1>3. fr \in GetFrames /\ Unmentioned(fr)
  BY <1>1, TopFrame, FrameKinds
<1>4. x \in GetFrames /\ x.fn = "get" /\ x.fut = fr.fut /\ x.todo = <<>> /\ fr.todo = <<>>
  BY <1>3 DEF GetFrames
<1>5. x \in AllFrames
  BY <1>4 DEF AllFrames
<1>6. Become(a, x)
  BY <1>2 DEF Goto
<1> HIDE DEF x
<1>7. FrameNow(x) /\ Unmentioned(x) /\ \A cb : ~Holds(x, cb)
  BY <1>1, <1>3, <1>4 DEF FrameNow, Unmentioned, Mentions, Holds
<1> QED  BY <1>1, <1>5, <1>6, <1>7, QuietBecome

\* A frame that adds the callback cb to the promise.
LEMMA OnFrame ==
  ASSUME NEW cb \in Callbacks, P \notin destructed,
         cb \in Links => timer # "none" /\ T \notin destructed
  PROVE  /\ Frame("on", P, cb, "lock") \in AllFrames
         /\ FrameNow(Frame("on", P, cb, "lock")) /\ Unmentioned(Frame("on", P, cb, "lock"))
         /\ Adds(Frame("on", P, cb, "lock"))
         /\ \A c : Holds(Frame("on", P, cb, "lock"), c) <=> c = cb
<1> DEFINE x == Frame("on", P, cb, "lock")
<1>1. x.fn = "on" /\ x.fut = P /\ x.arg = cb /\ x.pc = "lock" /\ x.todo = <<>>
  BY DEF Frame
<1>2. x \in AllFrames
  BY DEF Frame, AllFrames, OnFrames
<1>3. ToSet(<<>>) = {}
  BY FewFrames
<1> HIDE DEF x
<1>4. FrameNow(x) /\ Adds(x) /\ \A c : Holds(x, c) <=> c = cb
  BY <1>1 DEF FrameNow, Adds, Holds
<1>5. Unmentioned(x)
  BY <1>1, <1>3 DEF Unmentioned, Mentions
<1> QED  BY <1>2, <1>4, <1>5 DEF x

\* timeout() adds its two callbacks.
LEMMA TimeoutLinkStep ==
  ASSUME IInv, NEW a \in Actors, timeout_link(a)
  PROVE  IInv'
<1> DEFINE fr == Top(a)
<1>1. /\ stack[a] # <<>> /\ fr.fn = "timeout"
      /\ UNCHANGED <<fields, queue, timer, history, callout, complaints, destructed>>
  BY DEF timeout_link, At
<1>2. fr \in TimeoutFrames /\ FrameNow(fr) /\ Unmentioned(fr)
  BY <1>1, TopFrame, FrameKinds
<1>3. PICK cb \in Links, pc_ \in {"on_failure", "future"} :
        /\ stack' = [stack EXCEPT ![a] = <<Frame("on", P, cb, "lock"),
                                           [fr EXCEPT !.pc = pc_]>> \o Tail(@)]
        /\ \/ fr.pc = "on_success" /\ cb = "settle_success" /\ pc_ = "on_failure"
           \/ fr.pc = "on_failure" /\ cb = "settle_failure" /\ pc_ = "future"
  <2>1. CASE At(a, "timeout", "on_success")
    BY <2>1 DEF timeout_link, Call, Links, At
  <2>2. CASE At(a, "timeout", "on_failure")
    BY <2>2 DEF timeout_link, Call, Links, At
  <2> QED  BY <2>1, <2>2 DEF timeout_link
<1> DEFINE x == Frame("on", P, cb, "lock")
           y == [fr EXCEPT !.pc = pc_]
<1>4. /\ timer # "none" /\ P \notin destructed /\ T \notin destructed
      /\ fr.fut = P /\ fr.todo = <<>>
  BY <1>1, <1>2, <1>3 DEF FrameNow, Unmentioned, Mentions, TimeoutFrames
<1>5. x \in AllFrames /\ FrameNow(x) /\ Unmentioned(x) /\ Adds(x) /\ \A c : Holds(x, c) <=> c = cb
  BY <1>4, OnFrame DEF Callbacks
<1>6. y \in TimeoutFrames /\ y.fn = "timeout" /\ y.fut = P /\ y.pc = pc_ /\ y.todo = <<>>
  BY <1>2 DEF TimeoutFrames
<1>7. y \in AllFrames
  BY <1>6 DEF AllFrames
<1> HIDE DEF x, y
<1>8. FrameNow(y) /\ Unmentioned(y) /\ Adds(y)
  BY <1>1, <1>2, <1>4, <1>6 DEF FrameNow, Unmentioned, Mentions, Adds
<1>9. /\ TopHolds(a, cb) /\ Adds(fr)
      /\ \A c \in Callbacks : Holds(y, c) => TopHolds(a, c) /\ c # cb
  BY <1>1, <1>3, <1>6 DEF TopHolds, Holds, Adds, Links
<1>10. stack' = [stack EXCEPT ![a] = <<x, y>> \o Tail(@)]
  BY <1>3 DEF x, y
<1> QED  BY <1>1, <1>5, <1>7, <1>8, <1>9, <1>10, QuietCall DEF MayHold

\* A call has the frames of its thread below, that is, none.
LEMMA EmptyTop ==
  ASSUME IInv, NEW a \in Actors, stack[a] = <<>>, stack' = stack
  PROVE  NewTop(a, <<>>)
<1>1. Below(a) = <<>> /\ <<>> \o <<>> = <<>>
  BY DEF Below
<1> QED  BY <1>1 DEF NewTop, IInv, StackInv

\* A step that may report a rejection, and leaves the outcomes as they are.
LEMMA StateStep ==
  ASSUME IInv, NEW a \in Actors, NEW new \in Seq(AllFrames), NewTop(a, new),
         UNCHANGED <<result, success_cbs, failure_cbs, queue, timer, added, called, callout,
                     complaints, destructed>>,
         state' \in [Futures -> NO_FUTURE..REJECTION_REPORTED],
         heard \subseteq heard', heard' \subseteq Futures,
         \A f \in Futures : /\ state'[f] > PENDING <=> state[f] > PENDING
                            /\ state'[f] = FULFILLED <=> state[f] = FULFILLED
                            /\ state'[f] = REJECTION_REPORTED => f \in heard',
         \A fr \in ToSet(new) : FrameNow(fr) /\ Unmentioned(fr),
         \A cb \in Callbacks :
           Alone(new, cb) /\ \A fr \in ToSet(new) : Holds(fr, cb) => MayHold(a, fr, cb)
  PROVE  IInv'
<1>1. P \in Futures
  BY DEF Futures
<1>2. Steady
  BY <1>1 DEF Steady
<1>3. \A cb : For(cb)' <=> For(cb)
  BY <1>1 DEF For
<1>4. \A fr \in ToSet(new) : FrameNow(fr)' /\ Unmentioned(fr)'
  BY <1>3 DEF FrameNow, Unmentioned, Mentions
<1>5. StackInv' /\ FrameInv'
  <2> DEFINE Q == {}
  <2> HIDE DEF Q
  <2>1. Q \in SUBSET Calls /\ queue' \subseteq queue \cup Q /\ ToSet(new) \cup Q = ToSet(new)
    BY DEF Q
  <2> QED  BY <1>2, <1>4, <2>1, FrameStep
<1>6. FieldType'
  BY DEF IInv, TypeOK, FieldType
<1>7. OnceInv'
  BY <1>1, <1>6, OnceStep
<1>8. FieldInv'
  BY <1>1 DEF IInv, FieldInv
<1>9. CalledInv'
  BY <1>3 DEF IInv, CalledInv
<1>10. RejectionHeard'
  <2> SUFFICES ASSUME NEW f \in destructed, state'[f] >= REJECTED
               PROVE  f \in heard' \cup complaints'
    BY DEF RejectionHeard
  <2>1. f \in Futures /\ state[f] \in NO_FUTURE..REJECTION_REPORTED
    BY DEF IInv, TypeOK
  <2>2. state[f] >= REJECTED
    BY <2>1 DEF NO_FUTURE, PENDING, FULFILLED, REJECTED, REJECTION_REPORTED
  <2> QED  BY <2>2 DEF IInv, RejectionHeard
<1> QED  BY <1>5, <1>6, <1>7, <1>8, <1>9, <1>10, TypesNext DEF IInv

\* future() makes the promise PENDING.
LEMMA FutureStep ==
  ASSUME IInv, NEW a \in Actors, NEW f \in Futures, future(a, f),
         NewTop(a, <<>>),
         UNCHANGED <<queue, timer, history, callout, complaints, destructed>>
  PROVE  IInv'
<1> DEFINE new == <<>>
<1>1. /\ new \in Seq(AllFrames) /\ ToSet(new) = {} /\ \A cb : Alone(new, cb)
      /\ NewTop(a, new)
  BY FewFrames
<1> HIDE DEF new
<1>2. UNCHANGED <<result, success_cbs, failure_cbs, queue, timer, added, called, callout,
                  complaints, destructed, heard>>
  BY DEF future, history
<1>3. /\ state' \in [Futures -> NO_FUTURE..REJECTION_REPORTED]
      /\ \A g \in Futures : /\ state'[g] > PENDING <=> state[g] > PENDING
                            /\ state'[g] = FULFILLED <=> state[g] = FULFILLED
                            /\ state'[g] = REJECTION_REPORTED => g \in heard'
  <2>1. state \in [Futures -> NO_FUTURE..REJECTION_REPORTED]
    BY DEF IInv, TypeOK
  <2>2. \A g \in Futures : state[g] = REJECTION_REPORTED => g \in heard'
    BY <1>2 DEF IInv, FieldInv
  <2> QED  BY <2>1, <2>2 DEF future, NO_FUTURE, PENDING, FULFILLED, REJECTION_REPORTED
<1>4. heard \subseteq heard' /\ heard' \subseteq Futures
  BY <1>2 DEF IInv, TypeOK
<1> QED  BY <1>1, <1>2, <1>3, <1>4, StateStep

\* What Result() does to the state.
LEMMA ResultFacts ==
  ASSUME IInv, NEW a, NEW f \in Futures, Result(a, f)
  PROVE  /\ state' \in [Futures -> NO_FUTURE..REJECTION_REPORTED]
         /\ heard \subseteq heard' /\ heard' \subseteq Futures
         /\ \A g \in Futures : /\ state'[g] > PENDING <=> state[g] > PENDING
                               /\ state'[g] = FULFILLED <=> state[g] = FULFILLED
                               /\ state'[g] = REJECTION_REPORTED => g \in heard'
<1>1. state \in [Futures -> NO_FUTURE..REJECTION_REPORTED] /\ heard \subseteq Futures
  BY DEF IInv, TypeOK
<1>2. \A g \in Futures : state[g] = REJECTION_REPORTED => g \in heard
  BY DEF IInv, FieldInv
<1> QED  BY <1>1, <1>2 DEF Result, NO_FUTURE, PENDING, FULFILLED, REJECTED, REJECTION_REPORTED

\* get() has the result.
LEMMA GetStep ==
  ASSUME IInv, NEW a \in Actors, get(a)
  PROVE  IInv'
<1>1. /\ stack[a] # <<>> /\ Top(a).fn = "get" /\ Result(a, Top(a).fut) /\ Return(a)
      /\ UNCHANGED <<result, success_cbs, failure_cbs, queue, timer, added, called, callout,
                     complaints, destructed>>
  BY DEF get, At
<1>2. Top(a).fut \in Futures
  BY <1>1, TopFrame, FrameFields
<1> DEFINE new == <<>>
<1>3. new \in Seq(AllFrames) /\ ToSet(new) = {} /\ \A cb : Alone(new, cb)
  BY FewFrames
<1>4. NewTop(a, new)
  BY <1>1, StackSteps DEF IInv, StackInv, Stacks
<1> HIDE DEF new
<1> QED  BY <1>1, <1>2, <1>3, <1>4, ResultFacts, StateStep

\* try_get() gives what there is.
LEMMA TryGetStep ==
  ASSUME IInv, NEW a \in Actors, stack[a] = <<>>, NEW f \in Futures, try_get(a, f)
  PROVE  IInv'
<1>1. UNCHANGED <<result, success_cbs, failure_cbs, stack, queue, timer, added, called, callout,
                  complaints, destructed>>
  BY DEF try_get
<1> DEFINE new == <<>>
<1>2. new \in Seq(AllFrames) /\ ToSet(new) = {} /\ \A cb : Alone(new, cb)
  BY FewFrames
<1>3. NewTop(a, new)
  BY <1>1, EmptyTop
<1> HIDE DEF new
<1>4. CASE Result(a, f)
  BY <1>1, <1>2, <1>3, <1>4, ResultFacts, StateStep
<1>5. CASE UNCHANGED <<state, heard>>
  BY <1>1, <1>2, <1>3, <1>5, QuietStep DEF fields, history
<1> QED  BY <1>4, <1>5 DEF try_get

\* A frame that looks at f.
LEMMA GetFrame ==
  ASSUME NEW f \in Futures, f \notin destructed
  PROVE  /\ Frame("get", f, None, "wait") \in AllFrames
         /\ FrameNow(Frame("get", f, None, "wait")) /\ Unmentioned(Frame("get", f, None, "wait"))
         /\ \A cb : ~Holds(Frame("get", f, None, "wait"), cb)
<1> DEFINE x == Frame("get", f, None, "wait")
<1>1. x.fn = "get" /\ x.fut = f /\ x.todo = <<>>
  BY DEF Frame
<1>2. x \in AllFrames
  BY DEF Frame, AllFrames, GetFrames
<1>3. ToSet(<<>>) = {}
  BY FewFrames
<1> HIDE DEF x
<1>4. FrameNow(x) /\ Unmentioned(x) /\ \A cb : ~Holds(x, cb)
  BY <1>1, <1>3 DEF FrameNow, Unmentioned, Mentions, Holds
<1> QED  BY <1>2, <1>4 DEF x

\* The program calls a method.
LEMMA CallStep ==
  ASSUME IInv, NEW t \in Threads, NEW o, CallMethod(t, o)
  PROVE  IInv'
<1>1. /\ t \in Actors /\ stack[t] = <<>> /\ P \notin destructed /\ P \in Futures
      /\ UNCHANGED <<queue, timer, history, callout, complaints, destructed>>
  BY DEF CallMethod, Actors, Futures
<1>2. CASE future(t, P) /\ UNCHANGED stack
  BY <1>1, <1>2, EmptyTop, FutureStep
<1>3. CASE o \in Settlers /\ UNCHANGED fields
  <2> DEFINE fn == IF o \in {"success", "failure"} THEN "finalise" ELSE "try"
             arg == [kind |-> IF o \in {"success", "try_success"} THEN FULFILLED ELSE REJECTED,
                     value |-> t, try |-> o \in {"try_success", "try_failure"}]
             pc_ == IF o \in {"success", "failure"} THEN "lock" ELSE "test"
             x == Frame(fn, P, arg, pc_)
  <2>1. arg \in SettleArgs(P)
    BY DEF SettleArgs
  <2> HIDE DEF arg
  <2>2. x \in TryFrames(P) \cup FinaliseFrames(P) /\ x.todo = <<>>
    <3>1. <<>> \in Seq(Callbacks)
      OBVIOUS
    <3> QED  BY <2>1, <3>1 DEF Frame, TryFrames, FinaliseFrames
  <2>3. Push(t, x)
    BY <1>3 DEF CallMethod, arg, Settlers
  <2> HIDE DEF x
  <2> QED  BY <1>1, <1>3, <2>2, <2>3, SettlerFrame, QuietPush
<1>4. ASSUME NEW cb \in SuccessCbs \cup FailureCbs, cb \notin added,
             \A fr \in Frames : fr.fn = "on" => fr.arg # cb,
             Push(t, Frame("on", P, cb, "lock")), UNCHANGED fields
      PROVE  IInv'
  <2> DEFINE x == Frame("on", P, cb, "lock")
  <2>1. cb \in Callbacks /\ cb \notin Links
    BY <1>4, PromiseAssumption DEF Callbacks, Links
  <2>2. x \in AllFrames /\ FrameNow(x) /\ Unmentioned(x) /\ Adds(x) /\ \A c : Holds(x, c) <=> c = cb
    BY <1>1, <2>1, OnFrame
  <2>3. Nowhere(cb)
    <3> SUFFICES ASSUME NEW b \in Actors, NEW i \in DOMAIN stack[b], Holds(stack[b][i], cb)
                 PROVE  FALSE
      BY <1>4 DEF Nowhere, InFrames
    <3>1. stack[b][i] \in Frames
      BY DEF Frames, ToSet
    <3>2. Adds(stack[b][i])
      BY <1>4, <2>1, <3>1 DEF IInv, OnceInv, AddedInv
    <3> QED  BY <1>4, <2>1, <3>1, <3>2 DEF Adds, Holds, Links
  <2>4. Push(t, x)
    BY <1>4
  <2> HIDE DEF x
  <2> QED  BY <1>1, <1>4, <2>2, <2>3, <2>4, QuietPush DEF MayHold
<1>5. CASE /\ timer = "none" /\ \A fr \in Frames : fr.fn # "timeout"
           /\ Push(t, Frame("timeout", P, None, "call_out")) /\ UNCHANGED fields
  <2> DEFINE x == Frame("timeout", P, None, "call_out")
  <2>1. x.fn = "timeout" /\ x.fut = P /\ x.pc = "call_out" /\ x.todo = <<>>
    BY DEF Frame
  <2>2. x \in AllFrames
    BY DEF Frame, AllFrames, TimeoutFrames
  <2>3. Push(t, x)
    BY <1>5
  <2> HIDE DEF x
  <2>4. T \notin destructed /\ Links \cap added = {}
    BY <1>5 DEF IInv, FieldInv
  <2>5. FrameNow(x) /\ Unmentioned(x) /\ Adds(x) /\ \A c : Holds(x, c) => c \in Links
    BY <1>1, <1>5, <2>1, <2>4 DEF FrameNow, Unmentioned, Mentions, Adds, Holds, Links, Futures, IInv, TypeOK
  <2>6. ASSUME NEW cb \in Links
        PROVE  Nowhere(cb)
    <3> SUFFICES ASSUME NEW b \in Actors, NEW i \in DOMAIN stack[b], Holds(stack[b][i], cb)
                 PROVE  FALSE
      BY <2>4 DEF Nowhere, InFrames
    <3>1. stack[b][i] \in Frames
      BY DEF Frames, ToSet
    <3>2. FrameNow(stack[b][i]) /\ Adds(stack[b][i])
      BY <2>4, <3>1 DEF IInv, OnceInv, AddedInv, FrameInv, Callbacks
    <3> QED  BY <1>5, <3>1, <3>2 DEF Adds, Holds, FrameNow
  <2> QED  BY <1>1, <1>5, <2>2, <2>3, <2>5, <2>6, QuietPush DEF MayHold
<1>6. CASE Push(t, Frame("get", P, None, "wait")) /\ UNCHANGED fields
  <2> DEFINE x == Frame("get", P, None, "wait")
  <2>1. x \in AllFrames /\ FrameNow(x) /\ Unmentioned(x) /\ \A cb : ~Holds(x, cb)
    BY <1>1, GetFrame
  <2>2. Push(t, x)
    BY <1>6
  <2> HIDE DEF x
  <2> QED  BY <1>1, <1>6, <2>1, <2>2, QuietPush
<1> QED  BY <1>1, <1>2, <1>3, <1>4, <1>5, <1>6 DEF CallMethod

\* The program calls get() on the future of timeout().
LEMMA GetTimeoutStep ==
  ASSUME IInv, NEW t \in Threads, GetTimeout(t)
  PROVE  IInv'
<1> DEFINE x == Frame("get", T, None, "wait")
<1>1. /\ t \in Actors /\ stack[t] = <<>> /\ T \notin destructed /\ T \in Futures /\ Push(t, x)
      /\ UNCHANGED <<fields, queue, timer, history, callout, complaints, destructed>>
  BY DEF GetTimeout, TimeoutKnown, Actors, Futures
<1>2. x \in AllFrames /\ FrameNow(x) /\ Unmentioned(x) /\ \A cb : ~Holds(x, cb)
  BY <1>1, GetFrame
<1> HIDE DEF x
<1> QED  BY <1>1, <1>2, QuietPush

-----------------------------------------------------------------------------
(* The call_out of timeout().                                              *)

\* A step that starts the call_out or ends it.
LEMMA TimerStep ==
  ASSUME IInv, NEW a \in Actors, NEW new \in Seq(AllFrames), NewTop(a, new),
         UNCHANGED <<fields, queue, history, callout, complaints, destructed>>,
         timer' \in {"armed", "over"}, T \notin destructed,
         \A fr \in ToSet(new) : FrameNow(fr)' /\ Unmentioned(fr),
         \A cb \in Callbacks :
           Alone(new, cb) /\ \A fr \in ToSet(new) : Holds(fr, cb) => MayHold(a, fr, cb)
  PROVE  IInv'
<1>1. /\ UNCHANGED <<state, result, success_cbs, failure_cbs, queue, added, called, heard>>
      /\ UNCHANGED <<callout, complaints, destructed>>
  BY DEF fields, history
<1>2. Steady
  BY <1>1 DEF Steady
<1>3. \A fr \in ToSet(new) : FrameNow(fr)' /\ Unmentioned(fr)'
  BY <1>1 DEF Unmentioned, Mentions
<1>4. StackInv' /\ FrameInv'
  <2> DEFINE Q == {}
  <2> HIDE DEF Q
  <2>1. Q \in SUBSET Calls /\ queue' \subseteq queue \cup Q /\ ToSet(new) \cup Q = ToSet(new)
    BY <1>1 DEF Q
  <2> QED  BY <1>2, <1>3, <2>1, FrameStep
<1>5. FieldType'
  BY <1>1 DEF IInv, TypeOK, FieldType
<1>6. OnceInv'
  BY <1>1, <1>5, OnceStep
<1>7. FieldInv' /\ CalledInv' /\ RejectionHeard'
  BY <1>1 DEF IInv, FieldInv, CalledInv, RejectionHeard, For
<1> QED  BY <1>4, <1>5, <1>6, <1>7, TypesNext DEF IInv

\* timeout() starts its call_out.
LEMMA TimeoutArmStep ==
  ASSUME IInv, NEW a \in Actors, timeout_arm(a)
  PROVE  IInv'
<1>1. PICK fr : fr = Top(a)
  OBVIOUS
<1> DEFINE x == [fr EXCEPT !.pc = "on_success"]
           new == <<x>>
<1>2. /\ stack[a] # <<>> /\ fr.fn = "timeout" /\ fr.pc = "call_out"
      /\ timer' = "armed" /\ Become(a, x)
      /\ UNCHANGED <<fields, queue, history, callout, complaints, destructed>>
  BY <1>1 DEF timeout_arm, At, Goto
<1>3. fr \in TimeoutFrames /\ Unmentioned(fr)
  BY <1>1, <1>2, TopFrame, FrameKinds
<1>4. T \notin destructed /\ fr.fut = P /\ fr.todo = <<>>
  BY <1>2, <1>3 DEF Unmentioned, Mentions, TimeoutFrames
<1>5. x \in TimeoutFrames /\ x.fn = "timeout" /\ x.fut = P /\ x.pc = "on_success" /\ x.todo = <<>>
  BY <1>3 DEF TimeoutFrames
<1>6. x \in AllFrames
  BY <1>5 DEF AllFrames
<1> HIDE DEF x
<1>7. FrameNow(x)' /\ Unmentioned(x)
  BY <1>2, <1>3, <1>4, <1>5 DEF FrameNow, Unmentioned, Mentions
<1>8. \A cb \in Callbacks : Holds(x, cb) => MayHold(a, x, cb)
  BY <1>1, <1>2, <1>5 DEF Holds, MayHold, TopHolds, Adds
<1>9. new \in Seq(AllFrames) /\ ToSet(new) = {x} /\ \A cb : Alone(new, cb)
  BY <1>6, FewFrames
<1>10. NewTop(a, new)
  BY <1>2, StackSteps DEF IInv, StackInv, Stacks
<1> HIDE DEF new
<1> QED  BY <1>2, <1>4, <1>7, <1>8, <1>9, <1>10, TimerStep

\* The time of timeout() is up.
LEMMA CallOutTimeoutStep ==
  ASSUME IInv, call_out_timeout(Backend)
  PROVE  IInv'
<1> DEFINE a == Backend
           x == TimedOut
           new == <<x>>
<1>1. /\ a \in Actors /\ stack[a] = <<>> /\ timer = "armed" /\ timer' = "over" /\ Push(a, x)
      /\ UNCHANGED <<fields, queue, history, callout, complaints, destructed>>
  BY DEF call_out_timeout, Actors
<1>2. T \notin destructed /\ T \in Futures
  BY <1>1 DEF IInv, FieldInv, Futures
<1>3. x \in TryFrames(T) /\ x.todo = <<>> /\ x.fn = "try"
  BY DEF TimedOut, Frame, TryFrames, SettleArgs, Results, P, T
<1> HIDE DEF x
<1>4. x \in AllFrames /\ FrameNow(x)' /\ Unmentioned(x) /\ \A cb : ~Holds(x, cb)
  BY <1>2, <1>3, SettlerFrame DEF FrameNow
<1>5. new \in Seq(AllFrames) /\ ToSet(new) = {x} /\ \A cb : Alone(new, cb)
  BY <1>4, FewFrames
<1>6. NewTop(a, new)
  BY <1>1, StackSteps DEF IInv, StackInv, Stacks
<1> HIDE DEF new
<1> QED  BY <1>1, <1>2, <1>4, <1>5, <1>6, TimerStep

\* timeout() returns its future.
LEMMA TimeoutReturnStep ==
  ASSUME IInv, NEW a \in Actors, timeout_return(a)
  PROVE  IInv'
<1>1. /\ stack[a] # <<>> /\ future(a, T) /\ Return(a) /\ T \in Futures
      /\ UNCHANGED <<queue, timer, history, callout, complaints, destructed>>
  BY DEF timeout_return, At, Futures
<1>2. NewTop(a, <<>>)
  BY <1>1, StackSteps DEF IInv, StackInv, Stacks
<1> QED  BY <1>1, <1>2, FutureStep

-----------------------------------------------------------------------------
(* Callbacks are added, scheduled and called.                              *)

\* The frame that calls cb.
LEMMA CallFrame ==
  ASSUME IInv, P \notin destructed, NEW cb \in Callbacks, For(cb), cb \in Links => T \notin destructed
  PROVE  LET x == Frame("do_call_callback", P, [cb |-> cb, value |-> result[P]], "call") IN
         /\ x \in AllFrames /\ x \in Calls /\ FrameNow(x) /\ Unmentioned(x) /\ ~Adds(x)
         /\ x.arg.cb = cb /\ \A c : Holds(x, c) <=> c = cb
<1> DEFINE x == Frame("do_call_callback", P, [cb |-> cb, value |-> result[P]], "call")
<1>1. /\ x.fn = "do_call_callback" /\ x.fut = P /\ x.pc = "call" /\ x.todo = <<>>
      /\ x.arg.cb = cb /\ x.arg.value = result[P]
  BY DEF Frame
<1>2. result[P] \in Threads
  BY DEF For, IInv, FieldInv
<1>3. x \in CallFrames
  BY <1>2 DEF Frame, CallFrames
<1>4. ToSet(<<>>) = {}
  BY FewFrames
<1> HIDE DEF x
<1>5. x \in AllFrames /\ x \in Calls
  BY <1>1, <1>3 DEF AllFrames, Calls
<1>6. FrameNow(x) /\ ~Adds(x) /\ \A c : Holds(x, c) <=> c = cb
  BY <1>1 DEF FrameNow, Adds, Holds
<1>7. Unmentioned(x)
  BY <1>1, <1>4 DEF Unmentioned, Mentions
<1> QED  BY <1>1, <1>5, <1>6, <1>7 DEF x

\* call_callback(), from a frame that holds cb and goes on as rest.
LEMMA CallbackStep ==
  ASSUME IInv, NEW a \in Actors, stack[a] # <<>>, P \notin destructed,
         NEW cb \in Callbacks, For(cb), cb \in Links => T \notin destructed,
         TopHolds(a, cb), ~Adds(Top(a)),
         NEW rest \in AllFrames, FrameNow(rest), Unmentioned(rest), ~Adds(rest),
         \A c \in Callbacks : Holds(rest, c) => TopHolds(a, c) /\ c # cb,
         call_callback(a, cb, P, rest),
         UNCHANGED <<fields, timer, history, callout, complaints, destructed>>
  PROVE  IInv'
<1> DEFINE x == Frame("do_call_callback", P, [cb |-> cb, value |-> result[P]], "call")
<1>1. /\ x \in AllFrames /\ x \in Calls /\ FrameNow(x) /\ Unmentioned(x) /\ ~Adds(x)
      /\ x.arg.cb = cb /\ \A c : Holds(x, c) <=> c = cb
  BY CallFrame
<1>2. \/ queue' = queue \cup {x} /\ Become(a, rest)
      \/ stack' = [stack EXCEPT ![a] = <<x, rest>> \o Tail(@)] /\ UNCHANGED queue
  BY DEF call_callback
<1> HIDE DEF x
<1>3. CASE stack' = [stack EXCEPT ![a] = <<x, rest>> \o Tail(@)] /\ UNCHANGED queue
  BY <1>1, <1>3, QuietCall DEF MayHold
<1>4. CASE queue' = queue \cup {x} /\ Become(a, rest)
  <2> DEFINE new == <<rest>>
             Q == {x}
  <2>1. /\ new \in Seq(AllFrames) /\ ToSet(new) = {rest}
        /\ \A c : Alone(new, c) /\ (InFrames(new, c) <=> Holds(rest, c))
    BY FewFrames
  <2>2. NewTop(a, new)
    BY <1>4, StackSteps DEF IInv, StackInv, Stacks
  <2> HIDE DEF new
  <2>3. /\ UNCHANGED <<state, result, success_cbs, failure_cbs, timer, added, called, heard>>
        /\ UNCHANGED <<callout, complaints, destructed>>
    BY DEF fields, history
  <2>4. Steady
    BY <2>3 DEF Steady
  <2>5. \A fr \in ToSet(new) \cup Q : FrameNow(fr)' /\ Unmentioned(fr)'
    <3>1. ASSUME NEW fr, FrameNow(fr), Unmentioned(fr)
          PROVE  FrameNow(fr)' /\ Unmentioned(fr)'
      BY <2>3, <3>1 DEF FrameNow, Unmentioned, Mentions, For
    <3> QED  BY <1>1, <2>1, <3>1
  <2>6. Q \in SUBSET Calls /\ queue' = queue \cup Q
    BY <1>1, <1>4
  <2> HIDE DEF Q
  <2>7. StackInv' /\ FrameInv'
    BY <2>1, <2>2, <2>4, <2>5, <2>6, FrameStep
  <2>8. FieldType'
    BY <2>3 DEF IInv, TypeOK, FieldType
  <2>9. ASSUME NEW c \in Callbacks
        PROVE  PlaceInv(c)' /\ AddedInv(c)'
    <3>1. /\ InQueue(c)' <=> InQueue(c) \/ c = cb
          /\ InList(c)' <=> InList(c)
          /\ WasCalled(c)' <=> WasCalled(c)
      BY <1>1, <1>4, <2>3 DEF InQueue, InList, WasCalled
    <3>2. \A fr \in ToSet(new) : Holds(fr, c) => (Adds(fr) <=> c \notin added')
      BY <2>1, <2>3, PlacesBefore
    <3>3. InFrames(new, c) => TopHolds(a, c) /\ c # cb
      BY <2>1
    <3> QED  BY <2>1, <2>2, <2>3, <3>1, <3>2, <3>3, PlacesBefore, PlacesAfter
  <2>10. \A p, q \in queue' : p.arg.cb = q.arg.cb => p = q
    <3>1. ~InQueue(cb)
      BY PlacesBefore
    <3> QED  BY <1>1, <1>4, <3>1 DEF InQueue, IInv, OnceInv
  <2>11. OnceInv'
    BY <2>3, <2>9, <2>10 DEF OnceInv, IInv
  <2>12. FieldInv' /\ CalledInv' /\ RejectionHeard'
    BY <2>3 DEF IInv, FieldInv, CalledInv, RejectionHeard, For
  <2> QED  BY <2>7, <2>8, <2>11, <2>12, TypesNext DEF IInv
<1> QED  BY <1>2, <1>3, <1>4

\* on_success() and on_failure() of a promise that has an outcome.
LEMMA OnCallStep ==
  ASSUME IInv, NEW a \in Actors, on_success_call(a)
  PROVE  IInv'
<1>1. PICK fr : fr = Top(a)
  OBVIOUS
<1> DEFINE x == [fr EXCEPT !.pc = "return"]
<1>2. /\ stack[a] # <<>> /\ fr.fn = "on" /\ fr.pc = "call"
      /\ call_callback(a, fr.arg, fr.fut, x)
      /\ UNCHANGED <<fields, timer, history, callout, complaints, destructed>>
  BY <1>1 DEF on_success_call, At
<1>3. fr \in OnFrames /\ FrameNow(fr) /\ Unmentioned(fr)
  BY <1>1, <1>2, TopFrame, FrameKinds
<1>4. /\ fr.fut = P /\ fr.arg \in Callbacks /\ fr.todo = <<>>
      /\ P \notin destructed /\ For(fr.arg) /\ (fr.arg \in Links => T \notin destructed)
  BY <1>2, <1>3 DEF OnFrames, FrameNow, Unmentioned, Mentions
<1>5. /\ x \in OnFrames /\ x.fn = "on" /\ x.pc = "return" /\ x.arg = fr.arg /\ x.fut = P
      /\ x.todo = <<>>
  BY <1>3 DEF OnFrames
<1>6. x \in AllFrames
  BY <1>5 DEF AllFrames
<1> HIDE DEF x
<1>7. FrameNow(x) /\ Unmentioned(x) /\ ~Adds(x) /\ \A c : ~Holds(x, c)
  BY <1>2, <1>3, <1>4, <1>5 DEF FrameNow, Unmentioned, Mentions, Adds, Holds
<1>8. TopHolds(a, fr.arg) /\ ~Adds(Top(a))
  BY <1>1, <1>2 DEF TopHolds, Holds, Adds
<1> QED  BY <1>2, <1>4, <1>6, <1>7, <1>8, CallbackStep

\* A step with the lock of the promise that makes the callback cb known: the top
\* frame has it, then the list or the new top frame, or nobody.
LEMMA AddStep ==
  ASSUME IInv, NEW a \in Actors, NEW new \in Seq(AllFrames), NewTop(a, new),
         UNCHANGED <<state, result, queue, timer, called, heard, callout, complaints, destructed>>,
         NEW cb \in Callbacks, TopHolds(a, cb), added' = added \cup {cb},
         cb \in Links => timer # "none" /\ T \notin destructed,
         \A fr \in ToSet(new) : FrameNow(fr) /\ Unmentioned(fr) /\ ~Adds(fr),
         \A c \in Callbacks : Alone(new, c) /\ (InFrames(new, c) => c = cb),
         \A c \in Callbacks : InList(c)' => InList(c) \/ (c = cb /\ ~InFrames(new, c)),
         success_cbs'[T] = <<>> /\ failure_cbs'[T] = <<>>,
         success_cbs' \in [Futures -> Seq(OnSuccess)],
         failure_cbs' \in [Futures -> Seq(Callbacks \ OnSuccess)],
         ToSet(success_cbs'[P]) \cup ToSet(failure_cbs'[P])
           \subseteq ToSet(success_cbs[P]) \cup ToSet(failure_cbs[P]) \cup {cb},
         state[P] <= PENDING => IsInjective(success_cbs'[P]) /\ IsInjective(failure_cbs'[P])
  PROVE  IInv'
<1>1. Steady
  BY DEF Steady
<1>2. \A fr \in ToSet(new) : FrameNow(fr)' /\ Unmentioned(fr)'
  BY DEF FrameNow, Unmentioned, Mentions, For
<1>3. StackInv' /\ FrameInv'
  <2> DEFINE Q == {}
  <2> HIDE DEF Q
  <2>1. Q \in SUBSET Calls /\ queue' \subseteq queue \cup Q /\ ToSet(new) \cup Q = ToSet(new)
    BY DEF Q
  <2> QED  BY <1>1, <1>2, <2>1, FrameStep
<1>4. FieldType'
  BY DEF IInv, TypeOK, FieldType
<1>5. ASSUME NEW c \in Callbacks
      PROVE  PlaceInv(c)' /\ AddedInv(c)'
  <2>1. /\ InQueue(c)' <=> InQueue(c)
        /\ WasCalled(c)' <=> WasCalled(c)
    BY DEF InQueue, WasCalled
  <2>2. \A fr \in ToSet(new) : Holds(fr, c) => (Adds(fr) <=> c \notin added')
    <3>1. \A fr \in ToSet(new) : Holds(fr, c) => InFrames(new, c)
      BY DEF InFrames, ToSet
    <3> QED  BY <3>1
  <2>3. ~(c \in added <=> c \in added') => c = cb
    OBVIOUS
  <2>4. cb \in added'
    OBVIOUS
  <2> QED  BY <2>1, <2>2, <2>3, <2>4, PlacesBefore, PlacesAfter
<1>6. OnceInv'
  BY <1>5 DEF OnceInv, IInv
<1>7. FieldInv'
  BY DEF IInv, FieldInv
<1>8. CalledInv' /\ RejectionHeard'
  BY DEF IInv, CalledInv, RejectionHeard, For
<1> QED  BY <1>3, <1>4, <1>6, <1>7, <1>8, TypesNext DEF IInv

\* A sequence with another value at its end.
LEMMA Appended ==
  ASSUME NEW S, NEW s \in Seq(S), NEW e \in S
  PROVE  /\ Append(s, e) \in Seq(S)
         /\ ToSet(Append(s, e)) = ToSet(s) \cup {e}
         /\ e \notin ToSet(s) /\ IsInjective(s) => IsInjective(Append(s, e))
<1>1. /\ Append(s, e) \in Seq(S) /\ DOMAIN s = 1..Len(s) /\ Len(s) \in Nat
      /\ DOMAIN Append(s, e) = 1..(Len(s) + 1)
      /\ Append(s, e)[Len(s) + 1] = e
      /\ \A i \in 1..Len(s) : Append(s, e)[i] = s[i]
  OBVIOUS
<1>2. 1..(Len(s) + 1) = 1..Len(s) \cup {Len(s) + 1}
  BY <1>1
<1>3. ToSet(Append(s, e)) = ToSet(s) \cup {e}
  BY <1>1, <1>2 DEF ToSet
<1>4. e \notin ToSet(s) /\ IsInjective(s) => IsInjective(Append(s, e))
  BY <1>1, <1>2 DEF IsInjective, ToSet
<1> QED  BY <1>1, <1>3, <1>4

\* on_success() and on_failure() with the lock.
LEMMA OnLockStep ==
  ASSUME IInv, NEW a \in Actors, on_success_lock(a)
  PROVE  IInv'
<1>1. PICK fr : fr = Top(a)
  OBVIOUS
<1>2. PICK cb : cb = fr.arg
  OBVIOUS
<1>3. /\ stack[a] # <<>> /\ fr.fn = "on" /\ fr.pc = "lock"
      /\ added' = added \cup {cb}
      /\ UNCHANGED <<state, result, queue, timer, called, heard, callout, complaints, destructed>>
  BY <1>1, <1>2 DEF on_success_lock, At
<1>4. fr \in OnFrames /\ FrameNow(fr) /\ Unmentioned(fr)
  BY <1>1, <1>3, TopFrame, FrameKinds
<1>5. /\ fr.fut = P /\ cb \in Callbacks /\ fr.todo = <<>> /\ P \notin destructed
      /\ cb \in Links => timer # "none" /\ T \notin destructed
  BY <1>2, <1>3, <1>4 DEF OnFrames, FrameNow, Unmentioned, Mentions
<1>6. TopHolds(a, cb)
  BY <1>1, <1>2, <1>3 DEF TopHolds, Holds
<1>7. /\ success_cbs \in [Futures -> Seq(OnSuccess)]
      /\ failure_cbs \in [Futures -> Seq(Callbacks \ OnSuccess)]
      /\ P \in Futures /\ T \in Futures
      /\ success_cbs[T] = <<>> /\ failure_cbs[T] = <<>>
      /\ state[P] <= PENDING => IsInjective(success_cbs[P]) /\ IsInjective(failure_cbs[P])
      /\ P # T
  BY DEF IInv, TypeOK, FieldInv, OnceInv, Futures, P, T
<1>8. CASE Return(a)
  <2> DEFINE new == <<>>
  <2>1. new \in Seq(AllFrames) /\ ToSet(new) = {} /\ \A c : Alone(new, c) /\ ~InFrames(new, c)
    BY FewFrames
  <2>2. NewTop(a, new)
    BY <1>3, <1>8, StackSteps DEF IInv, StackInv, Stacks
  <2> HIDE DEF new
  <2>3. CASE UNCHANGED <<success_cbs, failure_cbs>>
    <3>1. \A c : InList(c)' <=> InList(c)
      BY <1>3, <2>3 DEF InList
    <3> QED  BY <1>3, <1>5, <1>6, <1>7, <2>1, <2>2, <2>3, <3>1, AddStep
  <2>4. CASE /\ state[P] <= PENDING /\ cb \in OnSuccess
             /\ success_cbs' = [success_cbs EXCEPT ![P] = Append(@, cb)]
             /\ UNCHANGED failure_cbs
    <3>1. cb \notin ToSet(success_cbs[P])
      BY <1>5, <1>6, <2>4, PlacesBefore DEF InList
    <3>2. /\ Append(success_cbs[P], cb) \in Seq(OnSuccess)
          /\ ToSet(Append(success_cbs[P], cb)) = ToSet(success_cbs[P]) \cup {cb}
          /\ IsInjective(Append(success_cbs[P], cb))
      BY <1>7, <2>4, <3>1, Appended
    <3>3. /\ success_cbs'[P] = Append(success_cbs[P], cb) /\ success_cbs'[T] = <<>>
          /\ success_cbs' \in [Futures -> Seq(OnSuccess)]
      BY <1>7, <2>4, <3>2
    <3>4. \A c : InList(c)' => InList(c) \/ c = cb
      BY <1>3, <2>4, <3>2, <3>3 DEF InList
    <3> QED  BY <1>3, <1>5, <1>6, <1>7, <2>1, <2>2, <2>4, <3>2, <3>3, <3>4, AddStep
  <2>5. CASE /\ state[P] <= PENDING /\ cb \notin OnSuccess
             /\ failure_cbs' = [failure_cbs EXCEPT ![P] = Append(@, cb)]
             /\ UNCHANGED success_cbs
    <3>1. cb \notin ToSet(failure_cbs[P]) /\ cb \in Callbacks \ OnSuccess
      BY <1>5, <1>6, <2>5, PlacesBefore DEF InList
    <3>2. /\ Append(failure_cbs[P], cb) \in Seq(Callbacks \ OnSuccess)
          /\ ToSet(Append(failure_cbs[P], cb)) = ToSet(failure_cbs[P]) \cup {cb}
          /\ IsInjective(Append(failure_cbs[P], cb))
      BY <1>7, <2>5, <3>1, Appended
    <3>3. /\ failure_cbs'[P] = Append(failure_cbs[P], cb) /\ failure_cbs'[T] = <<>>
          /\ failure_cbs' \in [Futures -> Seq(Callbacks \ OnSuccess)]
      BY <1>7, <2>5, <3>2
    <3>4. \A c : InList(c)' => InList(c) \/ c = cb
      BY <1>3, <2>5, <3>2, <3>3 DEF InList
    <3> QED  BY <1>3, <1>5, <1>6, <1>7, <2>1, <2>2, <2>5, <3>2, <3>3, <3>4, AddStep
  <2> QED  BY <1>1, <1>2, <1>5, <1>8, <2>3, <2>4, <2>5 DEF on_success_lock
<1>9. CASE ~Return(a)
  <2> DEFINE x == [fr EXCEPT !.pc = "call"]
             new == <<x>>
  <2>1. /\ state[P] > PENDING /\ (state[P] = FULFILLED) = (cb \in OnSuccess) /\ Become(a, x)
        /\ UNCHANGED <<success_cbs, failure_cbs>>
    BY <1>1, <1>2, <1>5, <1>9 DEF on_success_lock, Goto
  <2>2. /\ x \in OnFrames /\ x.fn = "on" /\ x.pc = "call" /\ x.arg = cb /\ x.fut = P
        /\ x.todo = <<>>
    BY <1>2, <1>4 DEF OnFrames
  <2>3. x \in AllFrames
    BY <2>2 DEF AllFrames
  <2> HIDE DEF x
  <2>4. For(cb)
    BY <2>1 DEF For
  <2>5. FrameNow(x) /\ Unmentioned(x) /\ ~Adds(x) /\ \A c : Holds(x, c) <=> c = cb
    BY <1>2, <1>3, <1>4, <1>5, <2>2, <2>4 DEF FrameNow, Unmentioned, Mentions, Adds, Holds
  <2>6. /\ new \in Seq(AllFrames) /\ ToSet(new) = {x}
        /\ \A c : Alone(new, c) /\ (InFrames(new, c) <=> c = cb)
    BY <2>3, <2>5, FewFrames
  <2>7. NewTop(a, new)
    BY <1>3, <2>1, StackSteps DEF IInv, StackInv, Stacks
  <2> HIDE DEF new
  <2>8. \A c : InList(c)' <=> InList(c)
    BY <1>3, <2>1 DEF InList
  <2> QED  BY <1>3, <1>5, <1>6, <1>7, <2>1, <2>5, <2>6, <2>7, <2>8, AddStep
<1> QED  BY <1>8, <1>9

-----------------------------------------------------------------------------
(* The promise is settled.                                                 *)

\* A sequence without its first value.
LEMMA TailFacts ==
  ASSUME NEW S, NEW s \in Seq(S), s # <<>>
  PROVE  /\ Head(s) \in S /\ Tail(s) \in Seq(S)
         /\ Head(s) \in ToSet(s) /\ ToSet(Tail(s)) \subseteq ToSet(s)
         /\ IsInjective(s) => IsInjective(Tail(s)) /\ Head(s) \notin ToSet(Tail(s))
<1>1. /\ Head(s) \in S /\ Tail(s) \in Seq(S) /\ Head(s) = s[1] /\ 1 \in DOMAIN s
      /\ DOMAIN Tail(s) = 1..(Len(s) - 1) /\ DOMAIN s = 1..Len(s) /\ Len(s) \in Nat
      /\ \A i \in DOMAIN Tail(s) : Tail(s)[i] = s[i + 1]
  OBVIOUS
<1>2. \A i \in DOMAIN Tail(s) : i + 1 \in DOMAIN s /\ i + 1 # 1
  BY <1>1
<1>3. IsInjective(s) => IsInjective(Tail(s))
  <2> SUFFICES ASSUME IsInjective(s), NEW i \in DOMAIN Tail(s), NEW j \in DOMAIN Tail(s),
                      Tail(s)[i] = Tail(s)[j]
               PROVE  i = j
    BY DEF IsInjective
  <2>1. i + 1 = j + 1
    BY <1>1, <1>2 DEF IsInjective
  <2> QED  BY <1>1, <2>1
<1>4. IsInjective(s) => Head(s) \notin ToSet(Tail(s))
  BY <1>1, <1>2 DEF IsInjective, ToSet
<1> QED  BY <1>1, <1>2, <1>3, <1>4 DEF ToSet

\* finalise() schedules its callbacks and, when none is left, empties the lists.
LEMMA FinaliseScheduleStep ==
  ASSUME IInv, NEW a \in Actors, finalise_schedule(a)
  PROVE  IInv'
<1>1. PICK fr : fr = Top(a)
  OBVIOUS
<1>2. /\ stack[a] # <<>> /\ fr.fn = "finalise" /\ fr.pc = "schedule"
      /\ UNCHANGED <<state, result, timer, history, callout, complaints, destructed>>
  BY <1>1 DEF finalise_schedule, At
<1>3. fr \in FinaliseFrames(P) \cup FinaliseFrames(T) /\ FrameNow(fr) /\ Unmentioned(fr)
  BY <1>1, <1>2, TopFrame, FrameKinds
<1>4. /\ fr.fut \in Futures /\ fr \in FinaliseFrames(fr.fut) /\ fr.todo \in Seq(Callbacks)
      /\ fr.fut \notin destructed
  <2>1. /\ fr.fut \in Futures /\ fr \in FinaliseFrames(fr.fut) /\ fr.todo \in Seq(Callbacks)
    BY <1>3 DEF FinaliseFrames, Futures
  <2> QED  BY <1>2, <1>3, <2>1 DEF Unmentioned, Mentions
<1>5. CASE fr.todo # <<>>
  <2> DEFINE cb == Head(fr.todo)
             x == [fr EXCEPT !.todo = Tail(@)]
  <2>1. fr.fut = P /\ P \notin destructed
    BY <1>2, <1>3, <1>4, <1>5 DEF FrameNow, Futures
  <2>2. call_callback(a, cb, P, x) /\ UNCHANGED <<success_cbs, failure_cbs>>
    BY <1>1, <1>5, <2>1 DEF finalise_schedule
  <2>3. /\ cb \in Callbacks /\ Tail(fr.todo) \in Seq(Callbacks) /\ cb \in ToSet(fr.todo)
        /\ ToSet(Tail(fr.todo)) \subseteq ToSet(fr.todo) /\ IsInjective(Tail(fr.todo))
        /\ cb \notin ToSet(Tail(fr.todo))
    BY <1>2, <1>3, <1>4, <1>5, TailFacts DEF FrameNow
  <2>4. /\ x \in FinaliseFrames(P) /\ x.fn = "finalise" /\ x.pc = "schedule" /\ x.fut = P
        /\ x.todo = Tail(fr.todo)
    BY <1>2, <1>4, <2>1, <2>3 DEF FinaliseFrames
  <2>5. x \in AllFrames
    BY <2>4 DEF AllFrames
  <2> HIDE DEF x, cb
  <2>6. For(cb) /\ \A c \in ToSet(x.todo) : For(c)
    BY <1>2, <1>3, <2>3, <2>4 DEF FrameNow
  <2>7. P # T /\ (ToSet(fr.todo) \cap Links # {} => T \notin destructed)
    BY <1>3 DEF Unmentioned, Mentions, P, T
  <2>8. FrameNow(x) /\ ~Adds(x)
    BY <2>3, <2>4, <2>6, <2>7 DEF FrameNow, Adds
  <2>9. Unmentioned(x)
    BY <1>2, <1>3, <2>1, <2>3, <2>4 DEF Unmentioned, Mentions
  <2>10. \A c \in Callbacks : Holds(x, c) => TopHolds(a, c) /\ c # cb
    BY <1>1, <1>2, <2>3, <2>4 DEF Holds, TopHolds
  <2>11. TopHolds(a, cb) /\ ~Adds(Top(a))
    BY <1>1, <1>2, <2>3 DEF Holds, TopHolds, Adds
  <2>12. UNCHANGED <<fields, timer, history, callout, complaints, destructed>>
    BY <1>2, <2>2 DEF fields
  <2>13. cb \in Links => T \notin destructed
    BY <2>3, <2>7
  <2> QED  BY <1>2, <2>1, <2>2, <2>3, <2>5, <2>6, <2>8, <2>9, <2>10, <2>11, <2>12, <2>13,
              CallbackStep
<1>6. CASE fr.todo = <<>>
  <2> DEFINE new == <<>>
  <2>1. /\ success_cbs' = [success_cbs EXCEPT ![fr.fut] = <<>>]
        /\ failure_cbs' = [failure_cbs EXCEPT ![fr.fut] = <<>>]
        /\ Return(a) /\ UNCHANGED queue
    BY <1>1, <1>6 DEF finalise_schedule
  <2>2. new \in Seq(AllFrames) /\ ToSet(new) = {} /\ \A c : Alone(new, c) /\ ~InFrames(new, c)
    BY FewFrames
  <2>3. NewTop(a, new)
    BY <1>2, <2>1, StackSteps DEF IInv, StackInv, Stacks
  <2> HIDE DEF new
  <2>4. UNCHANGED <<state, result, queue, timer, added, called, heard, callout, complaints, destructed>>
    BY <1>2, <2>1 DEF history
  <2>5. /\ success_cbs \in [Futures -> Seq(OnSuccess)]
        /\ failure_cbs \in [Futures -> Seq(Callbacks \ OnSuccess)]
        /\ success_cbs[T] = <<>> /\ failure_cbs[T] = <<>> /\ P \in Futures /\ T \in Futures
    BY DEF IInv, TypeOK, FieldInv, Futures
  <2>6. /\ success_cbs' \in [Futures -> Seq(OnSuccess)]
        /\ failure_cbs' \in [Futures -> Seq(Callbacks \ OnSuccess)]
        /\ success_cbs'[T] = <<>> /\ failure_cbs'[T] = <<>>
        /\ success_cbs'[P] = success_cbs[P] \/ success_cbs'[P] = <<>>
        /\ failure_cbs'[P] = failure_cbs[P] \/ failure_cbs'[P] = <<>>
    <3>1. <<>> \in Seq(OnSuccess) /\ <<>> \in Seq(Callbacks \ OnSuccess)
      OBVIOUS
    <3> QED  BY <1>4, <2>1, <2>5, <3>1
  <2>7. ToSet(<<>>) = {} /\ IsInjective(<<>>)
    BY FewFrames DEF IsInjective
  <2>8. /\ ToSet(success_cbs'[P]) \subseteq ToSet(success_cbs[P])
        /\ ToSet(failure_cbs'[P]) \subseteq ToSet(failure_cbs[P])
    BY <2>6, <2>7
  <2>9. Steady
    BY <2>4 DEF Steady
  <2>10. StackInv' /\ FrameInv'
    <3> DEFINE Q == {}
    <3> HIDE DEF Q
    <3>1. Q \in SUBSET Calls /\ queue' \subseteq queue \cup Q /\ ToSet(new) \cup Q = {}
      BY <2>2, <2>4 DEF Q
    <3> QED  BY <2>2, <2>3, <2>9, <3>1, FrameStep
  <2>11. FieldType'
    BY <2>4, <2>6 DEF IInv, TypeOK, FieldType
  <2>12. ASSUME NEW c \in Callbacks
         PROVE  PlaceInv(c)' /\ AddedInv(c)'
    <3>1. /\ InQueue(c)' <=> InQueue(c)
          /\ InList(c)' => InList(c)
          /\ WasCalled(c)' <=> WasCalled(c)
      BY <2>4, <2>8 DEF InQueue, InList, WasCalled
    <3> QED  BY <2>2, <2>3, <2>4, <3>1, PlacesBefore, PlacesAfter
  <2>13. OnceInv'
    BY <2>4, <2>6, <2>7, <2>12 DEF OnceInv, IInv
  <2>14. FieldInv'
    BY <2>4, <2>6, <2>8 DEF IInv, FieldInv
  <2>15. CalledInv' /\ RejectionHeard'
    BY <2>4 DEF IInv, CalledInv, RejectionHeard, For
  <2> QED  BY <2>10, <2>11, <2>13, <2>14, <2>15, TypesNext DEF IInv
<1> QED  BY <1>5, <1>6

\* finalise() settles its future: the callbacks for the outcome leave their list.
LEMMA SettleStep ==
  ASSUME IInv, NEW a \in Actors, stack[a] # <<>>, NEW fr, fr = Top(a), NEW f \in Futures,
         fr \in FinaliseFrames(f), fr.pc = "lock", f \notin destructed, state[f] <= PENDING,
         state' = [state EXCEPT ![f] = fr.arg.kind],
         result' = [result EXCEPT ![f] = fr.arg.value],
         NEW todo, todo = IF fr.arg.kind = FULFILLED THEN success_cbs[f] ELSE failure_cbs[f],
         Become(a, [fr EXCEPT !.pc = "broadcast", !.todo = todo]),
         UNCHANGED <<success_cbs, failure_cbs, queue, timer, added, called, heard, callout,
                     complaints, destructed>>
  PROVE  IInv'
<1> DEFINE x == [fr EXCEPT !.pc = "broadcast", !.todo = todo]
           new == <<x>>
<1>1. /\ fr.fn = "finalise" /\ fr.fut = f /\ fr.arg \in SettleArgs(f)
      /\ fr.arg.kind \in {FULFILLED, REJECTED} /\ fr.arg.value \in Results
      /\ f = P => fr.arg.value \in Threads
  BY DEF FinaliseFrames, SettleArgs, Results
<1>2. /\ success_cbs \in [Futures -> Seq(OnSuccess)]
      /\ failure_cbs \in [Futures -> Seq(Callbacks \ OnSuccess)]
      /\ state \in [Futures -> NO_FUTURE..REJECTION_REPORTED]
      /\ result \in [Futures -> Results \cup {None}]
      /\ success_cbs[T] = <<>> /\ failure_cbs[T] = <<>> /\ P \in Futures /\ T \in Futures /\ P # T
      /\ f = P \/ f = T
  BY DEF IInv, TypeOK, FieldInv, Futures, P, T
<1>3. /\ todo \in Seq(Callbacks)
      /\ \A c \in ToSet(todo) : c \in Callbacks /\ (fr.arg.kind = FULFILLED <=> c \in OnSuccess)
  <2>1. CASE fr.arg.kind = FULFILLED
    <3>1. todo \in Seq(OnSuccess)
      BY <1>2, <2>1
    <3>2. OnSuccess \subseteq Callbacks
      BY DEF OnSuccess, Callbacks, Links
    <3> QED  BY <2>1, <3>1, <3>2 DEF ToSet
  <2>2. CASE fr.arg.kind # FULFILLED
    <3>1. todo \in Seq(Callbacks \ OnSuccess)
      BY <1>2, <2>2
    <3> QED  BY <2>2, <3>1 DEF ToSet
  <2> QED  BY <2>1, <2>2
<1>4. /\ x \in FinaliseFrames(f) /\ x.fn = "finalise" /\ x.pc = "broadcast" /\ x.fut = f
      /\ x.todo = todo
  BY <1>1, <1>3 DEF FinaliseFrames
<1>5. x \in AllFrames
  BY <1>2, <1>4 DEF AllFrames
<1>6. Become(a, x)
  OBVIOUS
<1> HIDE DEF x
<1>7. /\ \A c : Alone(new, c) /\ (InFrames(new, c) <=> Holds(x, c))
      /\ new \in Seq(AllFrames) /\ ToSet(new) = {x} /\ NewTop(a, new)
  BY <1>5, <1>6, FewFrames, StackSteps DEF IInv, StackInv, Stacks
<1> HIDE DEF new
<1>8. /\ state' \in [Futures -> NO_FUTURE..REJECTION_REPORTED]
      /\ result' \in [Futures -> Results \cup {None}]
      /\ state'[f] = fr.arg.kind /\ state'[f] > PENDING /\ state'[f] # REJECTION_REPORTED
      /\ result'[f] = fr.arg.value
      /\ \A g \in Futures \ {f} : state'[g] = state[g] /\ result'[g] = result[g]
  <2>1. \A i \in {FULFILLED, REJECTED} : /\ i \in NO_FUTURE..REJECTION_REPORTED
                                         /\ i > PENDING /\ i # REJECTION_REPORTED
    BY DEF NO_FUTURE, PENDING, FULFILLED, REJECTED, REJECTION_REPORTED
  <2> QED  BY <1>1, <1>2, <2>1
<1>9. ~(state[f] > PENDING)
  <2>1. state[f] \in NO_FUTURE..REJECTION_REPORTED
    BY <1>2
  <2> QED  BY <2>1 DEF NO_FUTURE, PENDING, REJECTION_REPORTED
<1>10. FieldType'
  BY <1>8 DEF IInv, TypeOK, FieldType
<1>11. Steady
  BY <1>2, <1>8, <1>9 DEF Steady
<1>12. IsInjective(todo) /\ (f = T => todo = <<>>)
  <2>1. CASE f = P
    BY <1>2, <2>1 DEF IInv, OnceInv
  <2>2. CASE f = T
    BY <1>2, <2>2 DEF IsInjective
  <2> QED  BY <1>2, <2>1, <2>2
<1>13. ToSet(<<>>) = {}
  BY FewFrames
<1>14. \A c \in ToSet(todo) : f = P /\ InList(c) /\ For(c)'
  <2> SUFFICES ASSUME NEW c \in ToSet(todo)
               PROVE  f = P /\ InList(c) /\ For(c)'
    OBVIOUS
  <2>1. f = P
    BY <1>2, <1>12, <1>13
  <2>2. InList(c)
    BY <2>1 DEF InList
  <2> QED  BY <1>3, <1>8, <2>1, <2>2 DEF For
<1>15. FrameNow(x)'
  BY <1>4, <1>12, <1>14 DEF FrameNow
<1>16. Unmentioned(x)'
  <2>1. T \in destructed => ToSet(todo) \cap Links = {}
    <3>1. T \in destructed =>
            (ToSet(success_cbs[P]) \cup ToSet(failure_cbs[P])) \cap Links = {}
      BY DEF IInv, FieldInv
    <3> QED  BY <1>14, <3>1 DEF InList
  <2> QED  BY <1>4, <2>1 DEF Unmentioned, Mentions
<1>17. StackInv' /\ FrameInv'
  <2> DEFINE Q == {}
  <2> HIDE DEF Q
  <2>1. /\ Q \in SUBSET Calls /\ queue' \subseteq queue \cup Q
        /\ \A y \in ToSet(new) \cup Q : FrameNow(y)' /\ Unmentioned(y)'
    BY <1>7, <1>15, <1>16 DEF Q
  <2> QED  BY <1>7, <1>11, <2>1, FrameStep
<1>18. \A c : Holds(x, c) => InList(c) /\ f = P
  BY <1>4, <1>14 DEF Holds
<1>19. ~Adds(x)
  BY <1>4 DEF Adds
<1>20. ASSUME NEW c \in Callbacks
       PROVE  PlaceInv(c)' /\ AddedInv(c)'
  <2>1. /\ InQueue(c)' <=> InQueue(c)
        /\ WasCalled(c)' <=> WasCalled(c)
        /\ InList(c)' => InList(c) /\ f # P
    <3>1. f = P => ~(state'[P] <= PENDING)
      BY <1>1, <1>8 DEF PENDING, FULFILLED, REJECTED
    <3> QED  BY <1>2, <1>8, <3>1 DEF InQueue, InList, WasCalled
  <2>2. \A y \in ToSet(new) : Holds(y, c) => (Adds(y) <=> c \notin added')
    BY <1>7, <1>18, <1>19, PlacesBefore
  <2> QED  BY <1>7, <1>18, <2>1, <2>2, PlacesBefore, PlacesAfter
<1>21. OnceInv'
  <2>1. state'[P] <= PENDING => state[P] <= PENDING
    BY <1>2, <1>8
  <2> QED  BY <1>20, <2>1 DEF OnceInv, IInv
<1>22. FieldInv'
  BY <1>1, <1>2, <1>8 DEF IInv, FieldInv
<1>23. CalledInv'
  <2> SUFFICES ASSUME NEW cb \in Callbacks, NEW v \in ToSet(called[cb]), P \notin destructed
               PROVE  For(cb)' /\ v = result'[P]
    BY DEF IInv, CalledInv
  <2>1. For(cb) /\ v = result[P]
    BY DEF IInv, CalledInv
  <2>2. f # P
    BY <1>9, <2>1 DEF For
  <2> QED  BY <1>2, <1>8, <2>1, <2>2 DEF For
<1>24. RejectionHeard'
  BY <1>8 DEF IInv, RejectionHeard, TypeOK
<1> QED  BY <1>10, <1>17, <1>21, <1>22, <1>23, <1>24, TypesNext DEF IInv

\* finalise() with the lock.
LEMMA FinaliseLockStep ==
  ASSUME IInv, NEW a \in Actors, finalise_lock(a)
  PROVE  IInv'
<1>1. PICK fr : fr = Top(a)
  OBVIOUS
<1>2. /\ stack[a] # <<>> /\ fr.fn = "finalise" /\ fr.pc = "lock"
      /\ UNCHANGED <<success_cbs, failure_cbs, queue, timer, history, callout, complaints, destructed>>
  BY <1>1 DEF finalise_lock, At
<1>3. fr \in FinaliseFrames(P) \cup FinaliseFrames(T) /\ Unmentioned(fr)
  BY <1>1, <1>2, TopFrame, FrameKinds
<1>4. PICK f \in Futures : fr \in FinaliseFrames(f) /\ f = fr.fut
  BY <1>3 DEF FinaliseFrames, Futures
<1>5. f \notin destructed
  BY <1>2, <1>3, <1>4 DEF Unmentioned, Mentions
<1>6. CASE state[f] <= PENDING
  <2>1. PICK todo : todo = IF fr.arg.kind = FULFILLED THEN success_cbs[f] ELSE failure_cbs[f]
    OBVIOUS
  <2>2. /\ state' = [state EXCEPT ![f] = fr.arg.kind]
        /\ result' = [result EXCEPT ![f] = fr.arg.value]
        /\ Become(a, [fr EXCEPT !.pc = "broadcast", !.todo = todo])
    BY <1>1, <1>4, <1>6, <2>1 DEF finalise_lock
  <2>3. UNCHANGED <<success_cbs, failure_cbs, queue, timer, added, called, heard, callout,
                    complaints, destructed>>
    BY <1>2 DEF history
  <2> QED  BY <1>1, <1>2, <1>4, <1>5, <1>6, <2>1, <2>2, <2>3, SettleStep
<1>7. CASE ~(state[f] <= PENDING)
  BY <1>1, <1>2, <1>4, <1>7, QuietReturn DEF finalise_lock, fields
<1> QED  BY <1>6, <1>7

-----------------------------------------------------------------------------
(* A callback is called.                                                   *)

\* The top frame calls its callback, and the new frames hold none.
LEMMA CalledStep ==
  ASSUME IInv, NEW a \in Actors, stack[a] # <<>>, NEW fr, fr = Top(a),
         fr \in CallFrames \cup SignalFrames, fr.pc = "call",
         NEW cb, cb = fr.arg.cb, NEW v, v = fr.arg.value,
         NEW new \in Seq(AllFrames), NewTop(a, new),
         called' = [called EXCEPT ![cb] = Append(@, v)],
         timer' = timer \/ (timer = "armed" /\ timer' = "over"),
         heard \subseteq heard', heard' \subseteq Futures,
         UNCHANGED <<fields, queue, added, callout, complaints, destructed>>,
         \A y \in ToSet(new) : FrameNow(y)' /\ Unmentioned(y) /\ \A c : ~Holds(y, c)
  PROVE  IInv'
<1>1. UNCHANGED <<state, result, success_cbs, failure_cbs>>
  BY DEF fields
<1>2. Steady
  BY <1>1 DEF Steady
<1>3. StackInv' /\ FrameInv'
  <2> DEFINE Q == {}
  <2> HIDE DEF Q
  <2>1. /\ Q \in SUBSET Calls /\ queue' \subseteq queue \cup Q
        /\ \A y \in ToSet(new) \cup Q : FrameNow(y)' /\ Unmentioned(y)'
    BY DEF Q, Unmentioned, Mentions
  <2> QED  BY <1>2, <2>1, FrameStep
<1>4. cb \in Callbacks /\ v \in Results /\ fr.fn \in {"do_call_callback", "do_signal_call_callback"}
  BY DEF CallFrames, SignalFrames, Results
<1>5. TopHolds(a, cb) /\ ~Adds(fr)
  BY <1>4 DEF TopHolds, Holds, Adds
<1>6. called[cb] = <<>> /\ cb \in added
  BY <1>4, <1>5, PlacesBefore DEF WasCalled
<1>7. called'[cb] = <<v>> /\ \A c \in Callbacks \ {cb} : called'[c] = called[c]
  <2>1. called \in [Callbacks -> Seq(Results)] /\ Append(<<>>, v) = <<v>>
    BY DEF IInv, TypeOK
  <2> QED  BY <1>4, <1>6, <2>1
<1>8. FieldType'
  <2>1. <<v>> \in Seq(Results)
    BY <1>4
  <2>2. called' \in [Callbacks -> Seq(Results)]
    BY <1>4, <1>7, <2>1 DEF IInv, TypeOK
  <2> QED  BY <1>1, <2>2 DEF IInv, TypeOK, FieldType
<1>9. ASSUME NEW c \in Callbacks
      PROVE  PlaceInv(c)' /\ AddedInv(c)'
  <2>1. /\ InQueue(c)' <=> InQueue(c)
        /\ InList(c)' <=> InList(c)
        /\ WasCalled(c)' => WasCalled(c) \/ c = cb
    BY <1>1, <1>7 DEF InQueue, InList, WasCalled
  <2>2. ~InFrames(new, c) /\ Alone(new, c) /\ \A y \in ToSet(new) : ~Holds(y, c)
    BY DEF InFrames, Alone, ToSet
  <2> QED  BY <1>4, <1>5, <1>6, <2>1, <2>2, PlacesBefore, PlacesAfter
<1>10. OnceInv'
  BY <1>1, <1>9 DEF OnceInv, IInv
<1>11. FieldInv'
  BY <1>1 DEF IInv, FieldInv
<1>12. CalledInv'
  <2>1. FrameNow(fr) /\ Unmentioned(fr)
    BY TopFrame
  <2>2. /\ P \notin destructed => For(cb) /\ v = result[P]
        /\ v = "broken" => cb \notin OnSuccess
    <3>1. CASE fr \in CallFrames
      <4>1. fr.fn = "do_call_callback" /\ v \in Threads
        BY <3>1 DEF CallFrames
      <4> QED  BY <2>1, <4>1, PromiseAssumption DEF FrameNow
    <3>2. CASE fr \in SignalFrames
      <4>1. fr.fn = "do_signal_call_callback" /\ cb \notin OnSuccess
        BY <3>2 DEF SignalFrames
      <4> QED  BY <2>1, <4>1 DEF FrameNow
    <3> QED  BY <3>1, <3>2
  <2>3. ToSet(<<v>>) = {v} /\ Len(<<v>>) = 1
    BY FewFrames
  <2>4. ASSUME NEW c \in Callbacks, c # cb
        PROVE  /\ Len(called'[c]) <= 1
               /\ \A w \in ToSet(called'[c]) :
                    /\ P \notin destructed => For(c) /\ w = result[P]
                    /\ w = "broken" => c \notin OnSuccess
    BY <1>7, <2>4 DEF IInv, CalledInv
  <2>5. \A c : For(c)' <=> For(c)
    BY <1>1 DEF For
  <2>6. ASSUME NEW c \in Callbacks
        PROVE  /\ Len(called'[c]) <= 1
               /\ \A w \in ToSet(called'[c]) :
                    /\ P \notin destructed => For(c) /\ w = result[P]
                    /\ w = "broken" => c \notin OnSuccess
    <3>1. CASE c = cb
      <4>1. PICK s : s = <<v>>
        OBVIOUS
      <4>2. Len(s) <= 1 /\ \A w \in ToSet(s) : w = v
        BY <2>3, <4>1
      <4>3. called'[c] = s
        BY <1>7, <3>1, <4>1
      <4> QED  BY <2>2, <3>1, <4>2, <4>3
    <3> QED  BY <2>4, <3>1
  <2> QED  BY <1>1, <2>5, <2>6 DEF CalledInv
<1>13. RejectionHeard'
  BY <1>1 DEF IInv, RejectionHeard
<1> QED  BY <1>3, <1>8, <1>10, <1>11, <1>12, <1>13, TypesNext DEF IInv

\* The frame by which a callback of timeout() settles its future.
LEMMA LinkFrame ==
  ASSUME NEW cb \in Links, NEW v \in Results, T \notin destructed
  PROVE  /\ SettleFrame(cb, v) \in AllFrames /\ FrameNow(SettleFrame(cb, v))'
         /\ Unmentioned(SettleFrame(cb, v)) /\ \A c : ~Holds(SettleFrame(cb, v), c)
<1> DEFINE x == SettleFrame(cb, v)
<1>1. x \in TryFrames(T) /\ x.todo = <<>> /\ x.fn = "try" /\ T \in Futures
  BY DEF SettleFrame, Frame, TryFrames, SettleArgs, P, T, Futures
<1> HIDE DEF x
<1>2. FrameNow(x)'
  BY <1>1 DEF FrameNow
<1> QED  BY <1>1, <1>2, SettlerFrame DEF x

\* do_call_callback() calls its callback.
LEMMA DoCallStep ==
  ASSUME IInv, NEW a \in Actors, do_call_callback_call(a)
  PROVE  IInv'
<1>1. PICK fr : fr = Top(a)
  OBVIOUS
<1>2. PICK cb, v : cb = fr.arg.cb /\ v = fr.arg.value
  OBVIOUS
<1> DEFINE x == [fr EXCEPT !.pc = "called"]
<1>3. /\ stack[a] # <<>> /\ fr.fn = "do_call_callback" /\ fr.pc = "call"
      /\ \/ CallUser(cb, v) /\ (Become(a, x) \/ Return(a))
         \/ CallLink(cb, v) /\ stack' = [stack EXCEPT ![a] = <<SettleFrame(cb, v), x>> \o Tail(@)]
      /\ Hear(fr.fut, cb)
      /\ UNCHANGED <<fields, queue, added, callout, complaints, destructed>>
  BY <1>1, <1>2 DEF do_call_callback_call, At, Goto, Call
<1>4. fr \in CallFrames /\ FrameNow(fr) /\ Unmentioned(fr)
  BY <1>1, <1>3, TopFrame, FrameKinds
<1>5. /\ fr.fut = P /\ cb \in Callbacks /\ v \in Results /\ fr.todo = <<>> /\ P \notin destructed
      /\ cb \in Links => T \notin destructed
  BY <1>2, <1>3, <1>4 DEF CallFrames, Results, Unmentioned, Mentions
<1>6. /\ heard' = IF cb \in OnSuccess THEN heard ELSE heard \cup {P}
      /\ heard \subseteq heard' /\ heard' \subseteq Futures
  BY <1>3, <1>5 DEF Hear, IInv, TypeOK, Futures
<1>7. /\ x \in CallFrames /\ x.fn = "do_call_callback" /\ x.pc = "called" /\ x.fut = P
      /\ x.arg.cb = cb /\ x.arg.value = v /\ x.todo = <<>>
  BY <1>2, <1>4 DEF CallFrames
<1>8. x \in AllFrames
  BY <1>7 DEF AllFrames
<1> HIDE DEF x
<1>9. FrameNow(x)' /\ Unmentioned(x) /\ \A c : ~Holds(x, c)
  <2>1. For(cb)' /\ v = result'[P]
    BY <1>2, <1>3, <1>4 DEF FrameNow, For, fields
  <2>2. FrameNow(x)'
    BY <1>6, <1>7, <2>1 DEF FrameNow
  <2>3. ToSet(<<>>) = {}
    BY FewFrames
  <2>4. Unmentioned(x)
    BY <1>5, <1>7, <2>3 DEF Unmentioned, Mentions
  <2> QED  BY <1>7, <2>2, <2>4 DEF Holds
<1>10. CASE CallUser(cb, v) /\ Become(a, x)
  <2> DEFINE new == <<x>>
  <2>1. /\ new \in Seq(AllFrames) /\ ToSet(new) = {x} /\ NewTop(a, new)
    BY <1>3, <1>8, <1>10, FewFrames, StackSteps DEF IInv, StackInv, Stacks
  <2> HIDE DEF new
  <2> QED  BY <1>1, <1>2, <1>3, <1>4, <1>6, <1>9, <1>10, <2>1, CalledStep DEF CallUser
<1>11. CASE CallUser(cb, v) /\ Return(a)
  <2> DEFINE new == <<>>
  <2>1. /\ new \in Seq(AllFrames) /\ ToSet(new) = {} /\ NewTop(a, new)
    BY <1>3, <1>11, FewFrames, StackSteps DEF IInv, StackInv, Stacks
  <2> HIDE DEF new
  <2> QED  BY <1>1, <1>2, <1>3, <1>4, <1>6, <1>11, <2>1, CalledStep DEF CallUser
<1>12. CASE /\ CallLink(cb, v)
            /\ stack' = [stack EXCEPT ![a] = <<SettleFrame(cb, v), x>> \o Tail(@)]
  <2> DEFINE y == SettleFrame(cb, v)
             new == <<y, x>>
  <2>1. y \in AllFrames /\ FrameNow(y)' /\ Unmentioned(y) /\ \A c : ~Holds(y, c)
    BY <1>5, <1>12, LinkFrame DEF CallLink
  <2>2. stack' = [stack EXCEPT ![a] = <<y, x>> \o Tail(@)]
    BY <1>12
  <2> HIDE DEF y
  <2>3. new \in Seq(AllFrames) /\ ToSet(new) = {y, x} /\ NewTop(a, new)
    <3>1. NewTop(a, new)
      BY <1>3, <2>2, StackSteps DEF IInv, StackInv, Stacks
    <3>2. ToSet(new) = {y, x}
      BY FewFrames
    <3> QED  BY <1>8, <2>1, <3>1, <3>2
  <2> HIDE DEF new
  <2> QED  BY <1>1, <1>2, <1>3, <1>4, <1>6, <1>9, <1>12, <2>1, <2>3, CalledStep
              DEF CallLink, remove_call_out
<1> QED  BY <1>3, <1>10, <1>11, <1>12

\* do_signal_call_callback() calls its callback.
LEMMA DoSignalStep ==
  ASSUME IInv, NEW a \in Actors, do_signal_call_callback(a)
  PROVE  IInv'
<1>1. PICK fr : fr = Top(a)
  OBVIOUS
<1>2. PICK cb, v : cb = fr.arg.cb /\ v = fr.arg.value
  OBVIOUS
<1>3. /\ stack[a] # <<>> /\ fr.fn = "do_signal_call_callback" /\ fr.pc = "call"
      /\ \/ CallUser(cb, v) /\ Return(a)
         \/ CallLink(cb, v) /\ Become(a, SettleFrame(cb, v))
      /\ UNCHANGED <<fields, queue, added, heard, callout, complaints, destructed>>
  BY <1>1, <1>2 DEF do_signal_call_callback, At
<1>4. fr \in SignalFrames /\ Unmentioned(fr)
  BY <1>1, <1>3, TopFrame, FrameKinds
<1>5. /\ v \in Results /\ (cb \in Links => T \notin destructed)
  BY <1>2, <1>3, <1>4 DEF SignalFrames, Results, Unmentioned, Mentions
<1>6. heard \subseteq heard' /\ heard' \subseteq Futures
  BY <1>3 DEF IInv, TypeOK
<1>7. CASE CallUser(cb, v) /\ Return(a)
  <2> DEFINE new == <<>>
  <2>1. /\ new \in Seq(AllFrames) /\ ToSet(new) = {} /\ NewTop(a, new)
    BY <1>3, <1>7, FewFrames, StackSteps DEF IInv, StackInv, Stacks
  <2> HIDE DEF new
  <2> QED  BY <1>1, <1>2, <1>3, <1>4, <1>6, <1>7, <2>1, CalledStep DEF CallUser
<1>8. CASE CallLink(cb, v) /\ Become(a, SettleFrame(cb, v))
  <2> DEFINE y == SettleFrame(cb, v)
             new == <<y>>
  <2>1. y \in AllFrames /\ FrameNow(y)' /\ Unmentioned(y) /\ \A c : ~Holds(y, c)
    BY <1>5, <1>8, LinkFrame DEF CallLink
  <2>2. Become(a, y)
    BY <1>8
  <2> HIDE DEF y
  <2>3. /\ new \in Seq(AllFrames) /\ ToSet(new) = {y} /\ NewTop(a, new)
    BY <1>3, <2>1, <2>2, FewFrames, StackSteps DEF IInv, StackInv, Stacks
  <2> HIDE DEF new
  <2> QED  BY <1>1, <1>2, <1>3, <1>4, <1>6, <1>8, <2>1, <2>3, CalledStep
              DEF CallLink, remove_call_out
<1> QED  BY <1>3, <1>7, <1>8

\* do_call_callback() has called its callback: a rejection has been reported.
LEMMA DoneStep ==
  ASSUME IInv, NEW a \in Actors, do_call_callback_done(a)
  PROVE  IInv'
<1>1. PICK fr : fr = Top(a)
  OBVIOUS
<1>2. /\ stack[a] # <<>> /\ fr.fn = "do_call_callback" /\ fr.pc = "called"
      /\ state' = [state EXCEPT ![fr.fut] = IF @ = REJECTED THEN REJECTION_REPORTED ELSE @]
      /\ Return(a)
      /\ UNCHANGED <<result, success_cbs, failure_cbs, queue, timer, added, called, heard, callout,
                     complaints, destructed>>
  BY <1>1 DEF do_call_callback_done, At, history
<1>3. fr \in CallFrames /\ FrameNow(fr)
  BY <1>1, <1>2, TopFrame, FrameKinds
<1>4. fr.fut = P /\ P \in Futures
  BY <1>3 DEF CallFrames, Futures
<1>5. state[P] = REJECTED => P \in heard
  BY <1>2, <1>3 DEF FrameNow, For, FULFILLED, REJECTED
<1>6. /\ state' \in [Futures -> NO_FUTURE..REJECTION_REPORTED]
      /\ \A g \in Futures : /\ state'[g] > PENDING <=> state[g] > PENDING
                            /\ state'[g] = FULFILLED <=> state[g] = FULFILLED
                            /\ state'[g] = REJECTION_REPORTED => g \in heard'
  <2>1. state \in [Futures -> NO_FUTURE..REJECTION_REPORTED]
    BY DEF IInv, TypeOK
  <2>2. \A g \in Futures : state[g] = REJECTION_REPORTED => g \in heard'
    BY <1>2 DEF IInv, FieldInv
  <2> QED  BY <1>2, <1>4, <1>5, <2>1, <2>2
              DEF NO_FUTURE, PENDING, FULFILLED, REJECTED, REJECTION_REPORTED
<1>7. heard \subseteq heard' /\ heard' \subseteq Futures
  BY <1>2 DEF IInv, TypeOK
<1> DEFINE new == <<>>
<1>8. /\ new \in Seq(AllFrames) /\ ToSet(new) = {} /\ NewTop(a, new) /\ \A c : Alone(new, c)
  BY <1>2, FewFrames, StackSteps DEF IInv, StackInv, Stacks
<1> HIDE DEF new
<1> QED  BY <1>2, <1>6, <1>7, <1>8, StateStep

\* on_success() and on_failure() return.
LEMMA OnReturnStep ==
  ASSUME IInv, NEW a \in Actors, on_success_return(a)
  PROVE  IInv'
BY QuietReturn DEF on_success_return, At

-----------------------------------------------------------------------------
(* finalise() wakes the threads that wait.                                 *)

\* Another top frame.
LEMMA NewHead ==
  ASSUME NEW s \in Seq(AllFrames), s # <<>>, NEW x \in AllFrames
  PROVE  /\ <<x>> \o Tail(s) \in Seq(AllFrames)
         /\ DOMAIN (<<x>> \o Tail(s)) = DOMAIN s
         /\ 1 \in DOMAIN s /\ Head(s) = s[1]
         /\ \A i \in DOMAIN s : (<<x>> \o Tail(s))[i] = IF i = 1 THEN x ELSE s[i]
<1>1. Tail(s) \in Seq(AllFrames) /\ Len(Tail(s)) = Len(s) - 1 /\ Len(s) \in Nat /\ Len(s) > 0
  OBVIOUS
<1>2. \A i \in 1..Len(Tail(s)) : Tail(s)[i] = s[i + 1]
  OBVIOUS
<1>3. PICK r : r = Tail(s)
  OBVIOUS
<1>4. /\ <<x>> \o r \in Seq(AllFrames) /\ Len(<<x>> \o r) = 1 + Len(r)
      /\ (<<x>> \o r)[1] = x
      /\ \A i \in 1..Len(r) : (<<x>> \o r)[1 + i] = r[i]
  <2>1. r \in Seq(AllFrames) /\ <<x>> \in Seq(AllFrames) /\ Len(<<x>>) = 1 /\ <<x>>[1] = x
    BY <1>1, <1>3
  <2> QED  BY <2>1
<1>5. DOMAIN (<<x>> \o r) = 1..Len(s) /\ DOMAIN s = 1..Len(s)
  BY <1>1, <1>3, <1>4
<1>6. ASSUME NEW i \in 1..Len(s), i # 1
      PROVE  (<<x>> \o r)[i] = s[i]
  <2>1. i - 1 \in 1..Len(r) /\ 1 + (i - 1) = i /\ (i - 1) + 1 = i
    BY <1>1, <1>3, <1>6
  <2>2. (<<x>> \o r)[1 + (i - 1)] = r[i - 1] /\ r[i - 1] = s[(i - 1) + 1]
    BY <1>2, <1>3, <1>4, <2>1
  <2> QED  BY <2>1, <2>2
<1>7. 1 \in DOMAIN s /\ Head(s) = s[1]
  BY <1>1
<1> QED  BY <1>3, <1>4, <1>5, <1>6, <1>7

\* The frame y is the frame x at another place in its method.
Alike(x, y) ==
  /\ y \in AllFrames
  /\ FrameNow(x) => FrameNow(y)
  /\ Unmentioned(x) => Unmentioned(y)
  /\ \A cb : Holds(x, cb) <=> Holds(y, cb)
  /\ Adds(x) <=> Adds(y)

\* The frames of finalise() and wait() at the broadcast.
LEMMA AlikeFrames ==
  ASSUME NEW x \in AllFrames
  PROVE  /\ Alike(x, x)
         /\ x.pc = "sleep" => Alike(x, [x EXCEPT !.pc = "lock"])
         /\ x.fn = "finalise" /\ x.pc = "broadcast" => Alike(x, [x EXCEPT !.pc = "schedule"])
<1>1. Alike(x, x)
  BY DEF Alike
<1>2. ASSUME x.pc = "sleep" PROVE Alike(x, [x EXCEPT !.pc = "lock"])
  <2> DEFINE y == [x EXCEPT !.pc = "lock"]
  <2>1. x \in GetFrames
    BY <1>2 DEF AllFrames, TryFrames, FinaliseFrames, OnFrames, GetFrames, TimeoutFrames,
                CallFrames, SignalFrames
  <2>2. /\ y \in GetFrames /\ y.fn = "get" /\ x.fn = "get" /\ y.fut = x.fut
        /\ y.todo = x.todo
    BY <2>1 DEF GetFrames
  <2>3. y \in AllFrames
    BY <2>2 DEF AllFrames
  <2> HIDE DEF y
  <2>4. Alike(x, y)
    BY <2>2, <2>3 DEF Alike, FrameNow, Unmentioned, Mentions, Holds, Adds
  <2> QED  BY <2>4 DEF y
<1>3. ASSUME x.fn = "finalise", x.pc = "broadcast"
      PROVE  Alike(x, [x EXCEPT !.pc = "schedule"])
  <2> DEFINE y == [x EXCEPT !.pc = "schedule"]
  <2>1. PICK f \in Futures : x \in FinaliseFrames(f)
    BY <1>3, FrameKinds DEF Futures
  <2>2. /\ y \in FinaliseFrames(f) /\ y.fn = "finalise" /\ y.fut = x.fut /\ y.pc = "schedule"
        /\ y.todo = x.todo
    BY <1>3, <2>1 DEF FinaliseFrames
  <2>3. y \in AllFrames
    BY <2>2 DEF AllFrames, Futures
  <2> HIDE DEF y
  <2>4. Alike(x, y)
    BY <1>3, <2>2, <2>3 DEF Alike, FrameNow, Unmentioned, Mentions, Holds, Adds
  <2> QED  BY <2>4 DEF y
<1> QED  BY <1>1, <1>2, <1>3

\* cond->broadcast().
LEMMA BroadcastStep ==
  ASSUME IInv, NEW a \in Actors, finalise_broadcast(a)
  PROVE  IInv'
<1>1. /\ UNCHANGED <<state, result, success_cbs, failure_cbs, queue, timer, added, called, heard>>
      /\ UNCHANGED <<callout, complaints, destructed>>
      /\ stack \in [Actors -> Seq(AllFrames)]
  BY DEF finalise_broadcast, fields, history, IInv, StackInv
<1>2. ASSUME NEW b \in Actors
      PROVE  /\ stack'[b] \in Seq(AllFrames) /\ DOMAIN stack'[b] = DOMAIN stack[b]
             /\ \A i \in DOMAIN stack[b] : Alike(stack[b][i], stack'[b][i])
  <2>1. stack[b] \in Seq(AllFrames) /\ \A i \in DOMAIN stack[b] : stack[b][i] \in AllFrames
    BY <1>1
  <2>2. CASE stack'[b] = stack[b]
    BY <2>1, <2>2, AlikeFrames
  <2>3. ASSUME NEW y, stack[b] # <<>>, Alike(Head(stack[b]), y),
               stack'[b] = <<y>> \o Tail(stack[b])
        PROVE  /\ stack'[b] \in Seq(AllFrames) /\ DOMAIN stack'[b] = DOMAIN stack[b]
               /\ \A i \in DOMAIN stack[b] : Alike(stack[b][i], stack'[b][i])
    <3>1. y \in AllFrames
      BY <2>3 DEF Alike
    <3>2. PICK s \in Seq(AllFrames) : s = stack[b]
      BY <2>1
    <3>3. /\ <<y>> \o Tail(s) \in Seq(AllFrames) /\ DOMAIN (<<y>> \o Tail(s)) = DOMAIN s
          /\ Head(s) = s[1]
          /\ \A i \in DOMAIN s : (<<y>> \o Tail(s))[i] = IF i = 1 THEN y ELSE s[i]
      BY <2>3, <3>1, <3>2, NewHead
    <3>4. ASSUME NEW i \in DOMAIN s
          PROVE  Alike(s[i], (<<y>> \o Tail(s))[i])
      <4>1. CASE i = 1
        BY <2>3, <3>2, <3>3, <4>1
      <4>2. CASE i # 1
        BY <2>1, <3>2, <3>3, <4>2, AlikeFrames
      <4> QED  BY <4>1, <4>2
    <3> QED  BY <2>3, <3>2, <3>3, <3>4
  <2>4. CASE b = a
    <3>1. /\ stack[a] # <<>> /\ Top(a).fn = "finalise" /\ Top(a).pc = "broadcast"
          /\ stack'[a] = <<[Top(a) EXCEPT !.pc = "schedule"]>> \o Tail(stack[a])
      BY DEF finalise_broadcast, At
    <3>2. Top(a) \in AllFrames /\ Top(a) = Head(stack[a])
      BY <3>1, TopFrame DEF Top
    <3> QED  BY <2>3, <2>4, <3>1, <3>2, AlikeFrames
  <2>5. CASE b # a /\ stack[b] # <<>> /\ Head(stack[b]).pc = "sleep"
    <3>1. stack'[b] = <<[Head(stack[b]) EXCEPT !.pc = "lock"]>> \o Tail(stack[b])
      BY <2>5 DEF finalise_broadcast, Awake
    <3>2. Head(stack[b]) \in AllFrames
      BY <2>1, <2>5
    <3> QED  BY <2>3, <2>5, <3>1, <3>2, AlikeFrames
  <2>6. CASE b # a /\ ~(stack[b] # <<>> /\ Head(stack[b]).pc = "sleep")
    BY <2>2, <2>6 DEF finalise_broadcast, Awake
  <2> QED  BY <2>4, <2>5, <2>6
<1>3. StackInv'
  BY <1>1, <1>2 DEF finalise_broadcast, IInv, StackInv
<1>4. \A fr \in Frames' : \E x \in Frames : Alike(x, fr)
  BY <1>2 DEF Frames, ToSet
<1>5. FrameInv'
  <2>1. ASSUME NEW fr \in Frames' \cup queue'
        PROVE  FrameNow(fr) /\ Unmentioned(fr)
    BY <1>1, <1>4 DEF IInv, FrameInv, Alike
  <2> QED  BY <1>1, <2>1 DEF FrameInv, FrameNow, Unmentioned, Mentions, For
<1>6. ASSUME NEW cb \in Callbacks
      PROVE  PlaceInv(cb)' /\ AddedInv(cb)'
  <2>1. \A b \in Actors : /\ InFrames(stack'[b], cb) <=> InFrames(stack[b], cb)
                          /\ Alone(stack'[b], cb) <=> Alone(stack[b], cb)
    BY <1>2 DEF InFrames, Alone, Alike
  <2>2. InStacks(cb)' <=> InStacks(cb)
    BY <2>1 DEF InStacks
  <2>3. /\ InQueue(cb)' <=> InQueue(cb)
        /\ InList(cb)' <=> InList(cb)
        /\ WasCalled(cb)' <=> WasCalled(cb)
    BY <1>1 DEF InQueue, InList, WasCalled
  <2>4. PlaceInv(cb)'
    BY <2>1, <2>2, <2>3 DEF IInv, OnceInv, PlaceInv
  <2>5. AddedInv(cb)'
    BY <1>1, <1>4, <2>3 DEF IInv, OnceInv, AddedInv, Alike
  <2> QED  BY <2>4, <2>5
<1>7. OnceInv'
  BY <1>1, <1>6 DEF OnceInv, IInv
<1>8. FieldType' /\ FieldInv' /\ CalledInv' /\ RejectionHeard'
  BY <1>1 DEF IInv, TypeOK, FieldType, FieldInv, CalledInv, RejectionHeard, For
<1> QED  BY <1>3, <1>5, <1>7, <1>8, TypesNext DEF IInv

-----------------------------------------------------------------------------
(* The backend.                                                            *)

\* From the first round of the backend on, callbacks are called by call_outs.
LEMMA BackendStep ==
  ASSUME IInv, auto_use_backend(Backend)
  PROVE  IInv'
<1>1. /\ UNCHANGED <<state, result, success_cbs, failure_cbs, queue, timer, added, called, heard>>
      /\ UNCHANGED <<stack, complaints, destructed>> /\ callout' = "call_out"
  BY DEF auto_use_backend, fields, history
<1>2. StackInv' /\ FrameInv'
  BY <1>1 DEF IInv, StackInv, FrameInv, Frames, FrameNow, Unmentioned, Mentions, For
<1>3. OnceInv'
  BY <1>1 DEF IInv, OnceInv, PlaceInv, AddedInv, Frames, InStacks, InQueue, InList, WasCalled
<1>4. FieldType' /\ FieldInv' /\ CalledInv' /\ RejectionHeard'
  BY <1>1 DEF IInv, TypeOK, FieldType, FieldInv, CalledInv, RejectionHeard, For
<1> QED  BY <1>2, <1>3, <1>4, TypesNext DEF IInv

\* The backend takes a callback out of a call_out.
LEMMA CallOutStep ==
  ASSUME IInv, call_out(Backend)
  PROVE  IInv'
<1>1. PICK a \in Actors : a = Backend
  BY DEF Actors
<1>2. PICK call \in queue :
        /\ stack[a] = <<>> /\ queue' = queue \ {call} /\ Push(a, call)
        /\ UNCHANGED <<state, result, success_cbs, failure_cbs, timer, added, called, heard>>
        /\ UNCHANGED <<callout, complaints, destructed>>
  BY <1>1 DEF call_out, fields, history
<1>3. call \in Calls /\ call \in AllFrames /\ FrameNow(call) /\ Unmentioned(call)
  BY CallsAreFrames DEF IInv, StackInv, FrameInv, Calls
<1>4. /\ call.fn \in {"do_call_callback", "do_signal_call_callback"} /\ call.pc = "call"
      /\ call.arg.cb \in Callbacks
  BY <1>3 DEF Calls, CallFrames, SignalFrames
<1>5. ~Adds(call) /\ \A c : Holds(call, c) <=> c = call.arg.cb
  BY <1>4 DEF Adds, Holds
<1> DEFINE new == <<call>>
<1>6. /\ new \in Seq(AllFrames) /\ ToSet(new) = {call}
      /\ \A c : (InFrames(new, c) <=> c = call.arg.cb) /\ Alone(new, c)
  BY <1>3, <1>5, FewFrames
<1>7. NewTop(a, new)
  BY <1>2, StackSteps DEF IInv, StackInv, Stacks
<1> HIDE DEF new
<1>8. Steady
  BY <1>2 DEF Steady
<1>9. FrameNow(call)' /\ Unmentioned(call)'
  BY <1>2, <1>3 DEF FrameNow, Unmentioned, Mentions, For
<1>10. StackInv' /\ FrameInv'
  <2> DEFINE Q == {}
  <2> HIDE DEF Q
  <2>1. Q \in SUBSET Calls /\ queue' \subseteq queue \cup Q /\ ToSet(new) \cup Q = ToSet(new)
    BY <1>2 DEF Q
  <2> QED  BY <1>6, <1>7, <1>8, <1>9, <2>1, FrameStep
<1>11. ASSUME NEW c \in Callbacks
       PROVE  PlaceInv(c)' /\ AddedInv(c)'
  <2>1. /\ InQueue(c)' => InQueue(c) /\ c # call.arg.cb
        /\ InQueue(call.arg.cb)
    BY <1>2 DEF InQueue, IInv, OnceInv
  <2>2. /\ InList(c)' <=> InList(c)
        /\ WasCalled(c)' <=> WasCalled(c)
    BY <1>2 DEF InList, WasCalled
  <2>3. \A fr \in ToSet(new) : Holds(fr, c) => c = call.arg.cb /\ ~Adds(fr)
    BY <1>5, <1>6
  <2> QED  BY <1>1, <1>2, <1>6, <1>7, <2>1, <2>2, <2>3, PlacesBefore, PlacesAfter
<1>12. OnceInv'
  BY <1>2, <1>11 DEF OnceInv, IInv
<1>13. FieldType' /\ FieldInv' /\ CalledInv' /\ RejectionHeard'
  BY <1>2 DEF IInv, TypeOK, FieldType, FieldInv, CalledInv, RejectionHeard, For
<1> QED  BY <1>10, <1>12, <1>13, TypesNext DEF IInv

-----------------------------------------------------------------------------
(* _destruct().                                                            *)

\* The future of timeout() goes away: it has no callbacks.
LEMMA DropTimeout ==
  ASSUME IInv, destruct(T)
  PROVE  IInv'
<1>1. /\ T \notin destructed /\ ~Referenced(T) /\ destructed' = destructed \cup {T}
      /\ UNCHANGED <<stack, callout, timer, added, called>>
  BY DEF destruct
<1>2. T \in Futures /\ P \in Futures /\ P # T /\ ToSet(<<>>) = {}
  BY FewFrames DEF Futures, P, T
<1>3. /\ state \in [Futures -> NO_FUTURE..REJECTION_REPORTED]
      /\ result \in [Futures -> Results \cup {None}]
      /\ success_cbs \in [Futures -> Seq(OnSuccess)]
      /\ failure_cbs \in [Futures -> Seq(Callbacks \ OnSuccess)]
      /\ success_cbs[T] = <<>> /\ failure_cbs[T] = <<>>
      /\ complaints \subseteq Futures /\ heard \subseteq Futures /\ destructed \subseteq Futures
  BY DEF IInv, TypeOK, FieldInv
<1>4. UNCHANGED <<success_cbs, failure_cbs, queue, heard>>
  <2>1. success_cbs' = success_cbs /\ failure_cbs' = failure_cbs /\ heard' = heard
    BY <1>3 DEF destruct
  <2>2. queue' = queue
    BY <1>2, <1>3 DEF destruct
  <2> QED  BY <2>1, <2>2
<1>5. /\ state' = [state EXCEPT ![T] = IF @ = PENDING THEN REJECTED ELSE @]
      /\ result' = [result EXCEPT ![T] = None]
      /\ complaints' = IF state'[T] = REJECTED THEN complaints \cup {T} ELSE complaints
  BY <1>3 DEF destruct
<1>6. /\ state' \in [Futures -> NO_FUTURE..REJECTION_REPORTED] /\ state'[P] = state[P]
      /\ result' \in [Futures -> Results \cup {None}] /\ result'[P] = result[P]
      /\ state'[T] = IF state[T] = PENDING THEN REJECTED ELSE state[T]
  <2>1. /\ state' \in [Futures -> NO_FUTURE..REJECTION_REPORTED] /\ state'[P] = state[P]
        /\ state'[T] = IF state[T] = PENDING THEN REJECTED ELSE state[T]
    BY <1>2, <1>3, <1>5 DEF NO_FUTURE, PENDING, REJECTED, REJECTION_REPORTED
  <2>2. result' \in [Futures -> Results \cup {None}] /\ result'[P] = result[P]
    BY <1>2, <1>3, <1>5
  <2> QED  BY <2>1, <2>2
<1>7. FieldType'
  <2>1. complaints' \subseteq Futures /\ destructed' \subseteq Futures
    BY <1>1, <1>2, <1>3, <1>5
  <2> QED  BY <1>1, <1>4, <1>6, <2>1 DEF IInv, TypeOK, FieldType
<1>8. StackInv'
  BY <1>1, <1>4 DEF IInv, StackInv
<1>9. Frames' = Frames /\ (P \in destructed' <=> P \in destructed)
  BY <1>1, <1>2 DEF Frames
<1>10. FrameInv'
  <2> SUFFICES ASSUME NEW fr \in Frames' \cup queue'
               PROVE  FrameNow(fr)' /\ Unmentioned(fr)'
    BY DEF FrameInv
  <2>1. FrameNow(fr) /\ Unmentioned(fr) /\ ~Mentions(fr, T)
    BY <1>1, <1>4, <1>9 DEF IInv, FrameInv, Referenced
  <2>2. FrameNow(fr)'
    BY <1>1, <1>4, <1>6, <1>9, <2>1 DEF FrameNow, For
  <2>3. Unmentioned(fr)'
    BY <1>1, <2>1 DEF Unmentioned, Mentions
  <2> QED  BY <2>2, <2>3
<1>11. FieldInv'
  <2>1. timer = "over" /\ (ToSet(success_cbs[P]) \cup ToSet(failure_cbs[P])) \cap Links = {}
    BY <1>1 DEF Referenced, IInv, TypeOK
  <2>2. \A f \in Futures : state'[f] = REJECTION_REPORTED => f \in heard
    <3>1. \A f \in Futures : state'[f] = REJECTION_REPORTED => state[f] = REJECTION_REPORTED
      BY <1>6 DEF Futures, REJECTED, REJECTION_REPORTED
    <3> QED  BY <3>1 DEF IInv, FieldInv
  <2> QED  BY <1>1, <1>4, <1>6, <1>9, <2>1, <2>2 DEF IInv, FieldInv
<1>12. OnceInv'
  BY <1>1, <1>4, <1>6, <1>9
     DEF IInv, OnceInv, PlaceInv, AddedInv, InStacks, InQueue, InList, WasCalled
<1>13. CalledInv'
  BY <1>1, <1>6, <1>9 DEF IInv, CalledInv, For
<1>14. RejectionHeard'
  <2> SUFFICES ASSUME NEW f \in destructed', state'[f] >= REJECTED
               PROVE  f \in heard' \cup complaints'
    BY DEF RejectionHeard
  <2>1. CASE f = T
    <3>1. state'[T] \in {REJECTED, REJECTION_REPORTED}
      BY <1>2, <1>6, <2>1 DEF NO_FUTURE, REJECTED, REJECTION_REPORTED
    <3>2. state'[T] = REJECTION_REPORTED => T \in heard
      BY <1>2, <1>6 DEF IInv, FieldInv, REJECTED, REJECTION_REPORTED
    <3> QED  BY <1>4, <1>5, <2>1, <3>1, <3>2
  <2>2. CASE f # T
    <3>1. f \in destructed /\ f = P
      BY <1>1, <1>3, <2>2 DEF Futures
    <3>2. f \in heard \cup complaints
      BY <1>6, <3>1 DEF IInv, RejectionHeard
    <3> QED  BY <1>4, <1>5, <3>2
  <2> QED  BY <2>1, <2>2
<1> QED  BY <1>7, <1>8, <1>10, <1>11, <1>12, <1>13, <1>14, TypesNext DEF IInv

\* Without a reference to the promise no frame and no call_out holds a callback.
LEMMA NoHolders ==
  ASSUME IInv, P \notin destructed, ~Referenced(P)
  PROVE  /\ queue = {}
         /\ \A fr \in Frames : fr.fn \in {"try", "get"} \/ (fr.fn = "finalise" /\ fr.todo = <<>>)
         /\ \A fr \in Frames : \A cb : ~Holds(fr, cb)
<1>1. ASSUME NEW fr \in Frames \cup queue
      PROVE  fr.fut # P /\ fr \in AllFrames /\ FrameNow(fr)
  <2>1. fr \in AllFrames /\ FrameNow(fr)
    BY FramesTyped DEF IInv, FrameInv
  <2>2. fr.fn # "do_signal_call_callback"
    BY <2>1 DEF FrameNow
  <2> QED  BY <2>1, <2>2 DEF Referenced, Mentions
<1>2. queue = {}
  <2>1. \A fr \in queue : fr.fut = P
    BY DEF IInv, StackInv, CallFrames, SignalFrames
  <2> QED  BY <1>1, <2>1
<1>3. ASSUME NEW fr \in Frames
      PROVE  fr.fn \in {"try", "get"} \/ (fr.fn = "finalise" /\ fr.todo = <<>>)
  <2>1. CASE fr \in FinaliseFrames(T)
    <3>1. fr.fn = "finalise" /\ fr.fut = T
      BY <2>1 DEF FinaliseFrames
    <3> QED  BY <1>1, <3>1 DEF FrameNow
  <2>2. CASE fr \notin FinaliseFrames(T)
    BY <1>1, <2>2 DEF AllFrames, TryFrames, FinaliseFrames, OnFrames, GetFrames, TimeoutFrames,
                      CallFrames, SignalFrames
  <2> QED  BY <2>1, <2>2
<1>4. ToSet(<<>>) = {}
  BY FewFrames
<1>5. \A fr \in Frames : \A cb : ~Holds(fr, cb)
  BY <1>3, <1>4 DEF Holds
<1> QED  BY <1>2, <1>3, <1>5

\* The call_out by which a promise that goes away calls its failure callback cb.
Signal(cb) == Frame("do_signal_call_callback", P, [cb |-> cb, value |-> "broken"], "call")

\* The promise goes away.
LEMMA DropPromise ==
  ASSUME IInv, destruct(P)
  PROVE  IInv'
<1>1. /\ P \notin destructed /\ ~Referenced(P) /\ destructed' = destructed \cup {P}
      /\ UNCHANGED <<stack, callout, timer, added, called>>
  BY DEF destruct
<1>2. T \in Futures /\ P \in Futures /\ P # T /\ ToSet(<<>>) = {} /\ IsInjective(<<>>)
  BY FewFrames DEF Futures, P, T, IsInjective
<1>3. /\ state \in [Futures -> NO_FUTURE..REJECTION_REPORTED]
      /\ result \in [Futures -> Results \cup {None}]
      /\ success_cbs \in [Futures -> Seq(OnSuccess)]
      /\ failure_cbs \in [Futures -> Seq(Callbacks \ OnSuccess)]
      /\ complaints \subseteq Futures /\ heard \subseteq Futures /\ destructed \subseteq Futures
  BY DEF IInv, TypeOK
<1>4. /\ state' \in [Futures -> NO_FUTURE..REJECTION_REPORTED] /\ state'[T] = state[T]
      /\ state'[P] = IF state[P] = PENDING
                     THEN IF failure_cbs[P] = <<>> THEN REJECTED ELSE REJECTION_REPORTED
                     ELSE state[P]
      /\ result' \in [Futures -> Results \cup {None}]
  BY <1>2, <1>3 DEF destruct, NO_FUTURE, PENDING, REJECTED, REJECTION_REPORTED
<1>5. /\ heard' = IF state[P] = PENDING /\ failure_cbs[P] # <<>> THEN heard \cup {P} ELSE heard
      /\ complaints' = IF state'[P] = REJECTED THEN complaints \cup {P} ELSE complaints
  BY DEF destruct
<1>6. /\ success_cbs' \in [Futures -> Seq(OnSuccess)] /\ success_cbs'[P] = <<>>
      /\ success_cbs'[T] = success_cbs[T]
      /\ failure_cbs' \in [Futures -> Seq(Callbacks \ OnSuccess)] /\ failure_cbs'[P] = <<>>
      /\ failure_cbs'[T] = failure_cbs[T]
  <2>1. <<>> \in Seq(OnSuccess) /\ <<>> \in Seq(Callbacks \ OnSuccess)
    OBVIOUS
  <2>2. /\ failure_cbs' = [failure_cbs EXCEPT ![P] = <<>>]
        /\ success_cbs' = [success_cbs EXCEPT ![P] = <<>>]
    BY DEF destruct
  <2> QED  BY <1>2, <1>3, <2>1, <2>2
<1>7. FieldType'
  <2>1. complaints' \subseteq Futures /\ destructed' \subseteq Futures /\ heard' \subseteq Futures
    BY <1>1, <1>2, <1>3, <1>5
  <2> QED  BY <1>1, <1>4, <1>6, <2>1 DEF IInv, TypeOK, FieldType
<1>8. /\ queue = {}
      /\ \A fr \in Frames : fr.fn \in {"try", "get"} \/ (fr.fn = "finalise" /\ fr.todo = <<>>)
      /\ \A fr \in Frames : \A cb : ~Holds(fr, cb)
  BY <1>1, NoHolders
<1>9. PICK told : /\ told = IF state[P] = PENDING THEN ToSet(failure_cbs[P]) ELSE {}
                  /\ queue' = {Signal(cb) : cb \in told}
  BY <1>8 DEF destruct, Signal
<1>10. told \subseteq Callbacks \ OnSuccess
  BY <1>2, <1>3, <1>9 DEF ToSet
<1>11. ASSUME NEW cb \in told
       PROVE  /\ Signal(cb) \in SignalFrames /\ Signal(cb).pc = "call"
              /\ Signal(cb).fn = "do_signal_call_callback" /\ Signal(cb).arg.cb = cb
              /\ Signal(cb).todo = <<>> /\ Signal(cb).fut = P
  BY <1>10 DEF Signal, Frame, SignalFrames
<1>12. StackInv'
  BY <1>1, <1>9, <1>11 DEF IInv, StackInv
<1>13. Frames' = Frames
  BY <1>1 DEF Frames
<1>14. FrameInv'
  <2>1. ASSUME NEW fr \in Frames'
        PROVE  FrameNow(fr)' /\ Unmentioned(fr)'
    <3>1. FrameNow(fr) /\ Unmentioned(fr) /\ ~Mentions(fr, P)
      BY <1>1, <1>13 DEF IInv, FrameInv, Referenced
    <3>2. Unmentioned(fr)'
      BY <1>1, <3>1 DEF Unmentioned, Mentions
    <3>3. FrameNow(fr)'
      BY <1>2, <1>8, <1>13, <3>1 DEF FrameNow
    <3> QED  BY <3>2, <3>3
  <2>2. ASSUME NEW cb \in told
        PROVE  FrameNow(Signal(cb))' /\ Unmentioned(Signal(cb))'
    <3>1. PICK x : x = Signal(cb)
      OBVIOUS
    <3>2. /\ x.pc = "call" /\ x.fn = "do_signal_call_callback" /\ x.arg.cb = cb
          /\ x.todo = <<>> /\ x.fut = P
      BY <1>11, <3>1
    <3>3. T \in destructed => cb \notin Links
      BY <1>9 DEF IInv, FieldInv
    <3>4. T \in destructed' => T \in destructed
      BY <1>1, <1>2
    <3>5. FrameNow(x)'
      BY <1>1, <3>2 DEF FrameNow
    <3>6. Unmentioned(x)'
      BY <1>2, <3>2, <3>3, <3>4 DEF Unmentioned, Mentions
    <3> QED  BY <3>1, <3>5, <3>6 DEF Signal, Frame
  <2> QED  BY <1>9, <2>1, <2>2 DEF FrameInv
<1>15. FieldInv'
  <2>1. \A f \in Futures : state'[f] = REJECTION_REPORTED => f \in heard'
    <3>1. state'[P] = REJECTION_REPORTED => P \in heard'
      BY <1>2, <1>4, <1>5 DEF IInv, FieldInv, REJECTED, REJECTION_REPORTED
    <3>2. state'[T] = REJECTION_REPORTED => T \in heard'
      BY <1>2, <1>4, <1>5 DEF IInv, FieldInv
    <3> QED  BY <3>1, <3>2 DEF Futures
  <2>2. (ToSet(success_cbs'[P]) \cup ToSet(failure_cbs'[P])) \cap Links = {}
    BY <1>2, <1>6
  <2> QED  BY <1>1, <1>2, <1>6, <2>1, <2>2 DEF IInv, FieldInv
<1>16. OnceInv'
  <2>1. ASSUME NEW cb \in Callbacks
        PROVE  PlaceInv(cb)' /\ AddedInv(cb)'
    <3>1. \A b \in Actors : ~InFrames(stack'[b], cb)
      BY <1>1, <1>8 DEF InFrames, Frames, ToSet
    <3>2. ~InStacks(cb)' /\ ~InList(cb)' /\ (WasCalled(cb)' <=> WasCalled(cb))
      BY <1>1, <1>2, <1>6, <3>1 DEF InStacks, InList, WasCalled
    <3>3. \A b \in Actors : Alone(stack'[b], cb)
      BY <3>1 DEF InFrames, Alone
    <3>4. InQueue(cb)' => InList(cb)
      BY <1>2, <1>9, <1>11 DEF InQueue, InList, PENDING
    <3>5. PlaceInv(cb) /\ AddedInv(cb)
      BY DEF IInv, OnceInv
    <3>6. PlaceInv(cb)'
      BY <3>1, <3>2, <3>3, <3>4, <3>5 DEF PlaceInv
    <3>7. AddedInv(cb)'
      BY <1>1, <1>8, <1>13, <3>2, <3>4, <3>5 DEF AddedInv
    <3> QED  BY <3>6, <3>7
  <2>2. \A p, q \in queue' : p.arg.cb = q.arg.cb => p = q
    BY <1>9, <1>11
  <2> QED  BY <1>2, <1>6, <2>1, <2>2 DEF OnceInv
<1>17. CalledInv'
  BY <1>1 DEF IInv, CalledInv
<1>18. RejectionHeard'
  <2> SUFFICES ASSUME NEW f \in destructed', state'[f] >= REJECTED
               PROVE  f \in heard' \cup complaints'
    BY DEF RejectionHeard
  <2>1. CASE f = P
    <3>1. state'[P] \in {REJECTED, REJECTION_REPORTED}
      BY <1>2, <1>4, <2>1 DEF NO_FUTURE, REJECTED, REJECTION_REPORTED
    <3>2. state'[P] = REJECTION_REPORTED => P \in heard'
      BY <1>2, <1>15 DEF FieldInv
    <3> QED  BY <1>5, <2>1, <3>1, <3>2
  <2>2. CASE f # P
    <3>1. f \in destructed /\ f = T
      BY <1>1, <1>3, <2>2 DEF Futures
    <3>2. f \in heard \cup complaints
      BY <1>4, <3>1 DEF IInv, RejectionHeard
    <3> QED  BY <1>5, <3>2
  <2> QED  BY <2>1, <2>2
<1> QED  BY <1>7, <1>12, <1>14, <1>15, <1>16, <1>17, <1>18, TypesNext DEF IInv

-----------------------------------------------------------------------------
(* The invariant.                                                          *)

\* create() makes a promise without outcome.
LEMMA InitInv == Init => IInv
<1> SUFFICES ASSUME Init PROVE IInv
  OBVIOUS
<1> DEFINE none == <<>>
<1>1. /\ ToSet(none) = {} /\ IsInjective(none) /\ Len(none) = 0
      /\ none \in Seq(AllFrames) /\ none \in Seq(OnSuccess)
      /\ none \in Seq(Callbacks \ OnSuccess) /\ none \in Seq(Results)
      /\ \A cb : ~InFrames(none, cb) /\ Alone(none, cb)
  BY FewFrames DEF IsInjective
<1>2. /\ state = [f \in Futures |-> NO_FUTURE] /\ result = [f \in Futures |-> None]
      /\ success_cbs = [f \in Futures |-> none] /\ failure_cbs = [f \in Futures |-> none]
      /\ stack = [a \in Actors |-> none] /\ called = [cb \in Callbacks |-> none]
      /\ callout = "callnow" /\ queue = {} /\ timer = "none"
      /\ added = {} /\ heard = {} /\ complaints = {} /\ destructed = {}
  BY DEF Init
<1> HIDE DEF none
<1>3. Frames = {}
  BY <1>1, <1>2 DEF Frames
<1>4. StackInv /\ FrameInv
  BY <1>1, <1>2, <1>3 DEF StackInv, FrameInv
<1>5. FieldType
  <2>1. state \in [Futures -> NO_FUTURE..REJECTION_REPORTED]
    BY <1>2 DEF NO_FUTURE, REJECTION_REPORTED
  <2>2. /\ result \in [Futures -> Results \cup {None}]
        /\ success_cbs \in [Futures -> Seq(OnSuccess)]
        /\ failure_cbs \in [Futures -> Seq(Callbacks \ OnSuccess)]
        /\ called \in [Callbacks -> Seq(Results)]
    BY <1>1, <1>2
  <2> QED  BY <1>2, <2>1, <2>2 DEF FieldType
<1>6. P \in Futures /\ T \in Futures
  BY DEF Futures
<1>7. FieldInv
  <2>1. success_cbs[T] = <<>> /\ failure_cbs[T] = <<>>
    BY <1>2, <1>6 DEF none
  <2>2. /\ ~(state[P] > PENDING)
        /\ \A f \in Futures : state[f] # REJECTION_REPORTED
    BY <1>2, <1>6 DEF NO_FUTURE, PENDING, REJECTION_REPORTED
  <2> QED  BY <1>2, <2>1, <2>2 DEF FieldInv
<1>8. OnceInv
  <2>1. ASSUME NEW cb \in Callbacks
        PROVE  PlaceInv(cb) /\ AddedInv(cb)
    <3>1. \A a \in Actors : ~InFrames(stack[a], cb) /\ Alone(stack[a], cb)
      BY <1>1, <1>2
    <3>2. ~InStacks(cb) /\ ~InQueue(cb) /\ ~InList(cb) /\ ~WasCalled(cb)
      <4>1. called[cb] = <<>>
        BY <1>2 DEF none
      <4> QED  BY <1>1, <1>2, <1>6, <3>1, <4>1 DEF InStacks, InQueue, InList, WasCalled
    <3> QED  BY <1>3, <3>1, <3>2 DEF PlaceInv, AddedInv
  <2> QED  BY <1>1, <1>2, <1>6, <2>1 DEF OnceInv
<1>9. CalledInv
  BY <1>1, <1>2 DEF CalledInv
<1>10. RejectionHeard
  BY <1>2 DEF RejectionHeard
<1> QED  BY <1>4, <1>5, <1>7, <1>8, <1>9, <1>10, Types DEF IInv

\* The methods, the backend and the destructor keep the invariant.
LEMMA NextInv == IInv /\ [Next]_vars => IInv'
<1> SUFFICES ASSUME IInv, [Next]_vars PROVE IInv'
  OBVIOUS
<1>1. ASSUME NEW a \in Actors, Step(a)
      PROVE  IInv'
  <2>1. CASE do_call_callback(a) \/ do_signal_call_callback(a)
    BY <2>1, DoCallStep, DoneStep, DoSignalStep DEF do_call_callback
  <2>2. CASE try(a)
    BY <2>2, TryStep
  <2>3. CASE finalise(a)
    BY <2>3, FinaliseLockStep, BroadcastStep, FinaliseScheduleStep DEF finalise
  <2>4. CASE on_success(a)
    BY <2>4, OnLockStep, OnCallStep, OnReturnStep DEF on_success
  <2>5. CASE wait(a) \/ get(a)
    BY <2>5, WaitStep, GetStep
  <2>6. CASE timeout(a)
    BY <2>6, TimeoutArmStep, TimeoutLinkStep, TimeoutReturnStep DEF timeout
  <2> QED  BY <1>1, <2>1, <2>2, <2>3, <2>4, <2>5, <2>6 DEF Step
<1>2. ASSUME NEW t \in Threads,
             (\E o \in Ops[t] : CallMethod(t, o)) \/ GetTimeout(t) \/ TryGet(t)
      PROVE  IInv'
  <2>1. CASE TryGet(t)
    <3>1. PICK f \in Futures : stack[t] = <<>> /\ try_get(t, f)
      BY <2>1 DEF TryGet, Futures
    <3>2. t \in Actors
      BY DEF Actors
    <3> QED  BY <3>1, <3>2, TryGetStep
  <2> QED  BY <1>2, <2>1, CallStep, GetTimeoutStep
<1>3. CASE auto_use_backend(Backend) \/ call_out(Backend) \/ call_out_timeout(Backend)
  BY <1>3, BackendStep, CallOutStep, CallOutTimeoutStep
<1>4. ASSUME NEW f \in Futures, destruct(f)
      PROVE  IInv'
  BY <1>4, DropTimeout, DropPromise DEF Futures
<1>5. CASE UNCHANGED vars
  <2>1. /\ UNCHANGED <<state, result, success_cbs, failure_cbs, queue, timer, added, called, heard>>
        /\ UNCHANGED <<stack, callout, complaints, destructed>>
    BY <1>5 DEF vars, fields, history
  <2>2. TypeOK' /\ StackInv' /\ FrameInv'
    BY <2>1 DEF IInv, TypeOK, StackInv, FrameInv, Frames, FrameNow, Unmentioned, Mentions, For
  <2>3. OnceInv'
    BY <2>1 DEF IInv, OnceInv, PlaceInv, AddedInv, Frames, InStacks, InQueue, InList, WasCalled
  <2>4. FieldInv' /\ CalledInv' /\ RejectionHeard'
    BY <2>1 DEF IInv, FieldInv, CalledInv, RejectionHeard, For
  <2> QED  BY <2>2, <2>3, <2>4 DEF IInv
<1> QED  BY <1>1, <1>2, <1>3, <1>4, <1>5 DEF Next

\* The inductive invariant of Concurrent.Promise holds in every execution:
\* among its parts, that a callback is in one place at a time.
THEOREM Invariance == Spec => []IInv
BY InitInv, NextInv, PTL DEF Spec

\* Every field of the promises, and every frame of a thread, has its type.
THEOREM TypeCorrect == Spec => []TypeOK
<1>1. IInv => TypeOK
  BY DEF IInv
<1> QED  BY <1>1, Invariance, PTL

\* However the threads, the backend and timeout() interleave, a callback is
\* called at most once, in the outcome that it was added for and with the
\* result of the promise.
THEOREM OutcomeCorrect == Spec => []OutcomeSeen
<1>1. IInv => OutcomeSeen
  <2> SUFFICES ASSUME IInv, NEW cb \in Callbacks
               PROVE  /\ Len(called[cb]) <= 1
                      /\ \A v \in ToSet(called[cb]) :
                           IF P \in destructed
                           THEN v = "broken" => cb \notin OnSuccess
                           ELSE IF cb \in OnSuccess THEN Outcome[P] = <<FULFILLED, v>>
                                                    ELSE Outcome[P] = <<REJECTED, v>>
    BY DEF OutcomeSeen
  <2>1. /\ Len(called[cb]) <= 1
        /\ \A v \in ToSet(called[cb]) :
             /\ P \notin destructed => For(cb) /\ v = result[P]
             /\ v = "broken" => cb \notin OnSuccess
    BY DEF IInv, CalledInv
  <2>2. ASSUME P \notin destructed, For(cb)
        PROVE  Outcome[P] = <<IF cb \in OnSuccess THEN FULFILLED ELSE REJECTED, result[P]>>
    <3>1. P \in Futures /\ state[P] \in NO_FUTURE..REJECTION_REPORTED
      BY DEF Futures, IInv, TypeOK
    <3>2. ~(state[P] <= PENDING)
      BY <2>2, <3>1 DEF For, NO_FUTURE, PENDING, REJECTION_REPORTED
    <3> QED  BY <2>2, <3>1, <3>2 DEF Outcome, For
  <2> QED  BY <2>1, <2>2
<1> QED  BY <1>1, Invariance, PTL

\* When a rejected promise is destructed, somebody has been told.
THEOREM RejectionsHeard == Spec => []RejectionHeard
<1>1. IInv => RejectionHeard
  BY DEF IInv
<1> QED  BY <1>1, Invariance, PTL

-----------------------------------------------------------------------------
(* A future is settled once.                                               *)

\* NO_FUTURE and PENDING are one outcome, and so are both states of rejection.
LEMMA SameOutcome ==
  ASSUME destructed' = destructed, result' = result,
         \A f \in Futures : /\ state'[f] <= PENDING <=> state[f] <= PENDING
                            /\ state'[f] = FULFILLED <=> state[f] = FULFILLED
  PROVE  Outcome' = Outcome
BY DEF Outcome

\* future() and Result() leave the outcome.
LEMMA StateOutcome ==
  ASSUME IInv, NEW a, NEW g \in Futures, future(a, g) \/ Result(a, g)
  PROVE  \A f \in Futures : /\ state'[f] <= PENDING <=> state[f] <= PENDING
                            /\ state'[f] = FULFILLED <=> state[f] = FULFILLED
<1>1. state \in [Futures -> NO_FUTURE..REJECTION_REPORTED]
  BY DEF IInv, TypeOK
<1> QED  BY <1>1 DEF future, Result, NO_FUTURE, PENDING, FULFILLED, REJECTED, REJECTION_REPORTED

\* finalise() with the lock settles its future, unless that has an outcome.
LEMMA SettleOutcome ==
  ASSUME IInv, NEW a \in Actors, finalise_lock(a)
  PROVE  Once!Next \/ Outcome' = Outcome
<1>1. PICK fr : fr = Top(a)
  OBVIOUS
<1>2. /\ stack[a] # <<>> /\ fr.fn = "finalise" /\ destructed' = destructed
  BY <1>1 DEF finalise_lock, At
<1>3. fr \in FinaliseFrames(P) \cup FinaliseFrames(T) /\ Unmentioned(fr)
  BY <1>1, <1>2, TopFrame, FrameKinds
<1>4. PICK f \in Futures : fr \in FinaliseFrames(f) /\ f = fr.fut
  BY <1>3 DEF FinaliseFrames, Futures
<1>5. f \notin destructed
  BY <1>2, <1>3, <1>4 DEF Unmentioned, Mentions
<1>6. CASE state[f] <= PENDING
  <2>1. PICK kind, value : kind = fr.arg.kind /\ value = fr.arg.value
    OBVIOUS
  <2>2. kind \in {FULFILLED, REJECTED} /\ value \in Results
    <3>1. fr.arg \in SettleArgs(f)
      BY <1>4 DEF FinaliseFrames
    <3> QED  BY <2>1, <3>1 DEF SettleArgs, Results
  <2>3. /\ state' = [state EXCEPT ![f] = kind]
        /\ result' = [result EXCEPT ![f] = value]
    BY <1>1, <1>4, <1>6, <2>1 DEF finalise_lock
  <2>4. /\ state \in [Futures -> NO_FUTURE..REJECTION_REPORTED]
        /\ result \in [Futures -> Results \cup {None}]
    BY DEF IInv, TypeOK
  <2>5. /\ state'[f] = kind /\ result'[f] = value
        /\ \A g \in Futures \ {f} : state'[g] = state[g] /\ result'[g] = result[g]
    BY <2>3, <2>4
  <2>6. Outcome[f] = <<PENDING, None>>
    BY <1>5, <1>6 DEF Outcome
  <2>7. Outcome'[f] = <<kind, value>>
    BY <1>2, <1>5, <2>2, <2>5 DEF Outcome, PENDING, FULFILLED, REJECTED
  <2>8. \A g \in Futures \ {f} : Outcome'[g] = Outcome[g]
    BY <1>2, <2>5 DEF Outcome
  <2>9. Outcome' = [Outcome EXCEPT ![f] = <<kind, value>>]
    <3>1. /\ Outcome = [g \in Futures |-> Outcome[g]]
          /\ Outcome' = [g \in Futures |-> Outcome'[g]]
      BY DEF Outcome
    <3> QED  BY <2>7, <2>8, <3>1
  <2>10. <<kind, value>> \in {FULFILLED, REJECTED} \X Results
    BY <2>2
  <2> QED  BY <2>6, <2>9, <2>10 DEF Once!Next, Once!Settle
<1>7. CASE ~(state[f] <= PENDING)
  BY <1>1, <1>2, <1>4, <1>7, SameOutcome DEF finalise_lock
<1> QED  BY <1>6, <1>7

\* _destruct() drops its future.
LEMMA DropOutcome ==
  ASSUME IInv, NEW f \in Futures, destruct(f)
  PROVE  Once!Next
<1>1. f \notin destructed /\ destructed' = destructed \cup {f}
  BY DEF destruct
<1>2. /\ state \in [Futures -> NO_FUTURE..REJECTION_REPORTED]
      /\ result \in [Futures -> Results \cup {None}]
  BY DEF IInv, TypeOK
<1>3. \A g \in Futures \ {f} : state'[g] = state[g] /\ result'[g] = result[g]
  BY <1>2 DEF destruct
<1>4. Outcome[f] # Gone
  BY <1>1 DEF Outcome, Gone, PENDING, FULFILLED, REJECTED, REJECTION_REPORTED
<1>5. Outcome'[f] = Gone
  BY <1>1 DEF Outcome
<1>6. \A g \in Futures \ {f} : Outcome'[g] = Outcome[g]
  BY <1>1, <1>3 DEF Outcome
<1>7. Outcome' = [Outcome EXCEPT ![f] = Gone]
  <2>1. /\ Outcome = [g \in Futures |-> Outcome[g]]
        /\ Outcome' = [g \in Futures |-> Outcome'[g]]
    BY DEF Outcome
  <2> QED  BY <1>5, <1>6, <2>1
<1> QED  BY <1>4, <1>7 DEF Once!Next, Once!Drop

\* Every step settles a future that has no outcome, drops one, or leaves the
\* outcomes as they are.
LEMMA OnceNext ==
  ASSUME IInv, [Next]_vars
  PROVE  Once!Next \/ Outcome' = Outcome
<1>1. ASSUME UNCHANGED <<state, result, destructed>>
      PROVE  Outcome' = Outcome
  BY <1>1, SameOutcome
<1>2. ASSUME NEW a \in Actors, Step(a)
      PROVE  Once!Next \/ Outcome' = Outcome
  <2>1. CASE do_call_callback_done(a)
    <3>1. PICK f : f = Top(a).fut
      OBVIOUS
    <3>2. /\ state' = [state EXCEPT ![f] = IF @ = REJECTED THEN REJECTION_REPORTED ELSE @]
          /\ UNCHANGED <<result, destructed>>
      BY <2>1, <3>1 DEF do_call_callback_done
    <3>3. state \in [Futures -> NO_FUTURE..REJECTION_REPORTED]
      BY DEF IInv, TypeOK
    <3>4. \A g \in Futures : /\ state'[g] <= PENDING <=> state[g] <= PENDING
                             /\ state'[g] = FULFILLED <=> state[g] = FULFILLED
      BY <3>2, <3>3 DEF NO_FUTURE, PENDING, FULFILLED, REJECTED, REJECTION_REPORTED
    <3> QED  BY <3>2, <3>4, SameOutcome
  <2>2. CASE do_call_callback_call(a) \/ do_signal_call_callback(a)
    BY <1>1, <2>2 DEF do_call_callback_call, do_signal_call_callback, fields
  <2>3. CASE finalise_lock(a)
    BY <2>3, SettleOutcome
  <2>4. CASE try(a) \/ finalise_broadcast(a) \/ finalise_schedule(a)
    BY <1>1, <2>4 DEF try, finalise_broadcast, finalise_schedule, fields
  <2>5. CASE on_success(a)
    BY <1>1, <2>5 DEF on_success, on_success_lock, on_success_call, on_success_return, fields
  <2>6. CASE wait(a)
    BY <1>1, <2>6 DEF wait, wait_test, wait_lock, fields
  <2>7. CASE get(a)
    <3>1. Result(a, Top(a).fut) /\ UNCHANGED <<result, destructed>> /\ stack[a] # <<>>
      BY <2>7 DEF get, At
    <3>2. Top(a).fut \in Futures
      BY <3>1, TopFrame, FrameFields
    <3> QED  BY <3>1, <3>2, StateOutcome, SameOutcome
  <2>8. CASE timeout_arm(a) \/ timeout_link(a)
    BY <1>1, <2>8 DEF timeout_arm, timeout_link, fields
  <2>9. CASE timeout_return(a)
    <3>1. future(a, T) /\ UNCHANGED <<result, destructed>> /\ T \in Futures
      BY <2>9 DEF timeout_return, future, Futures
    <3> QED  BY <3>1, StateOutcome, SameOutcome
  <2> QED  BY <1>2, <2>1, <2>2, <2>3, <2>4, <2>5, <2>6, <2>7, <2>8, <2>9
              DEF Step, do_call_callback, finalise, timeout
<1>3. ASSUME NEW t \in Threads, NEW o \in Ops[t], CallMethod(t, o)
      PROVE  Outcome' = Outcome
  <2>1. CASE future(t, P)
    <3>1. UNCHANGED <<result, destructed>> /\ P \in Futures
      BY <1>3, <2>1 DEF CallMethod, future, Futures
    <3> QED  BY <2>1, <3>1, StateOutcome, SameOutcome
  <2>2. CASE UNCHANGED fields
    BY <1>1, <1>3, <2>2 DEF CallMethod, fields
  <2> QED  BY <1>3, <2>1, <2>2 DEF CallMethod
<1>4. ASSUME NEW t \in Threads, GetTimeout(t)
      PROVE  Outcome' = Outcome
  BY <1>1, <1>4 DEF GetTimeout, fields
<1>5. ASSUME NEW t \in Threads, TryGet(t)
      PROVE  Outcome' = Outcome
  <2>1. PICK f \in Futures : try_get(t, f)
    BY <1>5 DEF TryGet, Futures
  <2>2. UNCHANGED <<result, destructed>> /\ (Result(t, f) \/ UNCHANGED state)
    BY <2>1 DEF try_get
  <2> QED  BY <1>1, <2>2, StateOutcome, SameOutcome
<1>6. CASE auto_use_backend(Backend) \/ call_out(Backend) \/ call_out_timeout(Backend)
  BY <1>1, <1>6 DEF auto_use_backend, call_out, call_out_timeout, fields
<1>7. ASSUME NEW f \in Futures, destruct(f)
      PROVE  Once!Next
  BY <1>7, DropOutcome
<1>8. CASE UNCHANGED vars
  BY <1>1, <1>8 DEF vars, fields
<1> QED  BY <1>2, <1>3, <1>4, <1>5, <1>6, <1>7, <1>8 DEF Next

\* However many threads, timeouts and callbacks try to settle a future, one
\* of them does, and the outcome stays what it is.
THEOREM SettledOnce == Spec => ImplementsSettleOnce
<1>1. Init => Once!Init
  <2> SUFFICES ASSUME Init PROVE Once!Init
    OBVIOUS
  <2>1. destructed = {} /\ \A f \in Futures : state[f] <= PENDING
    BY DEF Init, NO_FUTURE, PENDING
  <2> QED  BY <2>1 DEF Once!Init, Outcome
<1>2. IInv /\ [Next]_vars => [Once!Next]_Outcome
  BY OnceNext
<1> QED  BY <1>1, <1>2, Invariance, PTL DEF Spec, ImplementsSettleOnce, Once!Spec

-----------------------------------------------------------------------------
(* AggregatedPromise: what holds in every state.                           *)

\* What a dependency may settle to.
Outcomes == {"success", "failure"}

\* Where aggregate_cb() may be.
Aggregating == {"lock", "decide", "fold", "try_success", "try_failure", "done"}

\* The types.
AggregateTypeOK ==
  /\ num_dependencies \in 0..N
  /\ started \in BOOLEAN
  /\ mode \in {"results", "fold", "first_completed"}
  /\ min_failure_threshold \in 0..N
  /\ max_failure_threshold \in Int
  /\ dependency_results \in [Outcomes -> SUBSET Deps]
  /\ aggregate_state \in {"pending", "fulfilled", "rejected", "fold error"}
  /\ aggregate_result \subseteq Deps
  /\ outcome \in [Deps -> Outcomes \cup {"pending"}]
  /\ callbacks_added \subseteq Deps \X Outcomes
  /\ pc \in [Callers -> Aggregating \cup
              {"none", "depend", "on_failure", "on_success", "limits", "mode", "start"}]
  /\ counts \in [Callers -> [Outcomes -> Nat]]

\* Main makes the promise before it starts it, and nothing is decided before
\* that; the number of dependencies is final when the promise is started.
MakingInv ==
  /\ started <=> pc[Main] \in Aggregating
  /\ pc[Main] # "none"
  /\ pc[Main] \in {"on_failure", "on_success"} => num_dependencies >= 1
  /\ pc[Main] \in {"limits", "mode"} => num_dependencies = N
  /\ started \/ pc[Main] = "start" =>
       num_dependencies = IF mode = "first_completed" THEN 1 ELSE N
  /\ ~started => aggregate_state = "pending"
  /\ \A d \in Deps :
       /\ pc[d] \in Aggregating \cup {"none"}
       /\ ~started => pc[d] \in {"none", "lock", "done"}
       /\ pc[d] # "none" => outcome[d] # "pending"

\* What is recorded is true, and what was counted is still there.
RecordInv ==
  /\ dependency_results["success"] \subseteq Succeeded
  /\ dependency_results["failure"] \subseteq Failed
  /\ \A a \in Callers : pc[a] = "decide" =>
       \A o \in Outcomes : counts[a][o] <= Cardinality(dependency_results[o])

\* When aggregate_cb() has decided to fulfil the promise: every dependency
\* is recorded, or for first_completed() one of them.
Fulfillable ==
  /\ NumFailed >= min_failure_threshold
  /\ IF mode = "first_completed"
     THEN dependency_results["success"] # {} \/ (Failed # {} /\ max_failure_threshold # 0)
     ELSE /\ Settled = Deps
          /\ dependency_results["success"] = Succeeded
          /\ ~TooManyFailures

\* When it has decided to reject it.
Rejectable == TooManyFailures \/ TooManySuccesses

\* A decision is right when it is made, and stays right until it is carried
\* out without the lock.
DecisionInv ==
  \A a \in Callers :
    /\ pc[a] \in {"fold", "try_success"} => Fulfillable
    /\ pc[a] = "try_success" => mode = "results"
    /\ pc[a] = "try_failure" => Rejectable

\* What the promise is settled with is right.
SettledInv ==
  /\ aggregate_state = "fulfilled" /\ mode # "first_completed" =>
       /\ Settled = Deps
       /\ aggregate_result = Succeeded
       /\ ~TooManyFailures
  /\ aggregate_state = "fulfilled" => NumFailed >= min_failure_threshold
  /\ aggregate_state = "rejected" => Rejectable
  /\ aggregate_state = "fulfilled" /\ mode = "first_completed" =>
       \/ \E d \in Succeeded : aggregate_result = {d}
       \/ aggregate_result = {} /\ Failed # {} /\ max_failure_threshold # 0

\* The inductive invariant.
AggregateInv == AggregateTypeOK /\ MakingInv /\ RecordInv /\ DecisionInv /\ SettledInv

-----------------------------------------------------------------------------
(* Counting.                                                               *)

\* The numbers of the promise.
LEMMA Numbers ==
  /\ N \in Nat /\ N >= 1
  /\ AggregateTypeOK => /\ num_dependencies \in Nat /\ num_dependencies <= N
                        /\ min_failure_threshold \in Nat /\ max_failure_threshold \in Int
<1>1. N \in Nat \ {0}
  BY AggregateAssumption
<1>2. AggregateTypeOK => /\ num_dependencies \in 0..N /\ min_failure_threshold \in 0..N
                         /\ max_failure_threshold \in Int
  BY DEF AggregateTypeOK
<1> QED  BY <1>1, <1>2

\* The sets of dependencies are finite, and larger ones have no fewer.
LEMMA DepSets ==
  /\ IsFiniteSet(Deps) /\ Cardinality(Deps) = N
  /\ \A S, U : S \subseteq U /\ U \subseteq Deps =>
       /\ Cardinality(S) \in Nat /\ Cardinality(U) \in Nat
       /\ Cardinality(S) <= Cardinality(U)
       /\ Cardinality(S) >= Cardinality(U) => S = U
       /\ IsFiniteSet(S)
<1>1. N \in Nat /\ 0 \in Int /\ N - 1 \in Int
  BY AggregateAssumption
<1>2. IsFiniteSet(Deps) /\ Cardinality(Deps) = N
  <2>1. IsFiniteSet(0..N - 1) /\ Cardinality(0..N - 1) = IF 0 > N - 1 THEN 0 ELSE N - 1 - 0 + 1
    BY <1>1, FS_Interval
  <2>2. N > 0
    BY AggregateAssumption
  <2> QED  BY <1>1, <2>1, <2>2 DEF Deps
<1>3. ASSUME NEW S, NEW U, S \subseteq U, U \subseteq Deps
      PROVE  /\ Cardinality(S) \in Nat /\ Cardinality(U) \in Nat
             /\ Cardinality(S) <= Cardinality(U)
             /\ Cardinality(S) >= Cardinality(U) => S = U
             /\ IsFiniteSet(S)
  <2>1. IsFiniteSet(U)
    BY <1>2, <1>3, FS_Subset
  <2>2. IsFiniteSet(S) /\ Cardinality(S) <= Cardinality(U) /\ (Cardinality(S) = Cardinality(U) => S = U)
    BY <2>1, <1>3, FS_Subset
  <2>3. Cardinality(S) \in Nat /\ Cardinality(U) \in Nat
    BY <2>1, <2>2, FS_CardinalityType
  <2> QED  BY <2>2, <2>3
<1> QED  BY <1>2, <1>3

\* No more dependencies settle than there are, and when that many have, all
\* have.
LEMMA OutcomeNumbers ==
  ASSUME AggregateTypeOK
  PROVE  /\ NumFailed \in Nat /\ NumSucceeded \in Nat
         /\ NumFailed + NumSucceeded <= N
         /\ NumFailed + NumSucceeded >= N => Settled = Deps
         /\ NumFailed + NumSucceeded = Cardinality(Settled) /\ Cardinality(Settled) \in Nat
<1>1. /\ Failed \subseteq Deps /\ Succeeded \subseteq Deps /\ Failed \cap Succeeded = {}
      /\ Failed \cup Succeeded = Settled /\ Settled \subseteq Deps
  BY DEF AggregateTypeOK, Outcomes, Failed, Succeeded, Settled
<1>2. /\ IsFiniteSet(Failed) /\ IsFiniteSet(Succeeded)
      /\ Cardinality(Failed) \in Nat /\ Cardinality(Succeeded) \in Nat
  BY <1>1, DepSets
<1>3. Cardinality(Failed \cup Succeeded) = Cardinality(Failed) + Cardinality(Succeeded)
  <2>1. Cardinality(Failed \cup Succeeded) =
          Cardinality(Failed) + Cardinality(Succeeded) - Cardinality(Failed \cap Succeeded)
    BY <1>2, FS_Union
  <2>2. Cardinality(Failed \cap Succeeded) = 0
    BY <1>1, FS_EmptySet
  <2> QED  BY <1>2, <2>1, <2>2
<1>4. Cardinality(Settled) <= N /\ (Cardinality(Settled) >= N => Settled = Deps)
  BY <1>1, DepSets
<1>5. Cardinality(Settled) = NumFailed + NumSucceeded
  BY <1>1, <1>3 DEF NumFailed, NumSucceeded
<1> QED  BY <1>2, <1>4, <1>5 DEF NumFailed, NumSucceeded

\* No more is recorded than has happened.
LEMMA RecordedNumbers ==
  ASSUME AggregateTypeOK, RecordInv
  PROVE  /\ Cardinality(dependency_results["success"]) \in Nat
         /\ Cardinality(dependency_results["failure"]) \in Nat
         /\ Cardinality(dependency_results["success"]) <= NumSucceeded
         /\ Cardinality(dependency_results["failure"]) <= NumFailed
         /\ Cardinality(dependency_results["success"]) >= NumSucceeded =>
              dependency_results["success"] = Succeeded
         /\ Cardinality(dependency_results["success"]) >= 1 => dependency_results["success"] # {}
         /\ NumFailed >= 1 => Failed # {}
<1>1. Succeeded \subseteq Deps /\ Failed \subseteq Deps
  BY DEF Succeeded, Failed
<1>2. Cardinality({}) = 0
  BY FS_EmptySet
<1> QED  BY <1>1, <1>2, DepSets DEF RecordInv, NumSucceeded, NumFailed

\* The same after a step.
LEMMA SettledNumbers ==
  ASSUME AggregateTypeOK'
  PROVE  NumFailed' \in Nat /\ NumSucceeded' \in Nat
<1>1. Failed' \subseteq Deps /\ Succeeded' \subseteq Deps
  BY DEF Failed, Succeeded
<1> QED  BY <1>1, DepSets DEF NumFailed, NumSucceeded

-----------------------------------------------------------------------------
(* The steps.                                                              *)

\* The tests of aggregate_cb() are right about the dependencies although
\* more of them may have settled since they were counted.
LEMMA VerdictRight ==
  ASSUME AggregateInv, NEW a \in Callers, pc[a] = "decide"
  PROVE  /\ started
         /\ Verdict(a) = "success" => Fulfillable
         /\ Verdict(a) = "failure" => Rejectable
         /\ Verdict(a) \in {"more", "success", "failure"}
<1> DEFINE s == counts[a]["success"]
           f == counts[a]["failure"]
           S == Cardinality(dependency_results["success"])
           F == Cardinality(dependency_results["failure"])
<1>1. started /\ num_dependencies = IF mode = "first_completed" THEN 1 ELSE N
  BY DEF AggregateInv, MakingInv, Callers, Aggregating
<1>2. /\ s \in Nat /\ f \in Nat /\ s <= S /\ f <= F
      /\ min_failure_threshold \in Nat /\ max_failure_threshold \in Int /\ N \in Nat
  <2>1. s \in Nat /\ f \in Nat
    BY DEF AggregateInv, AggregateTypeOK, Outcomes
  <2>2. s <= S /\ f <= F
    BY DEF AggregateInv, RecordInv, Outcomes
  <2>3. /\ min_failure_threshold \in Nat /\ max_failure_threshold \in Int /\ N \in Nat
    BY Numbers DEF AggregateInv
  <2> QED  BY <2>1, <2>2, <2>3
<1>3. /\ S \in Nat /\ F \in Nat /\ S <= NumSucceeded /\ F <= NumFailed
      /\ S >= NumSucceeded => dependency_results["success"] = Succeeded
      /\ S >= 1 => dependency_results["success"] # {}
      /\ NumFailed >= 1 => Failed # {}
      /\ NumFailed \in Nat /\ NumSucceeded \in Nat
      /\ NumFailed + NumSucceeded <= N
      /\ NumFailed + NumSucceeded >= N => Settled = Deps
  BY RecordedNumbers, OutcomeNumbers DEF AggregateInv
<1>4. Verdict(a) = IF \/ max_failure_threshold >= 0 /\ f > max_failure_threshold
                      \/ s + min_failure_threshold > num_dependencies
                   THEN "failure"
                   ELSE IF s + f < num_dependencies THEN "more"
                   ELSE IF f < min_failure_threshold THEN "failure"
                   ELSE "success"
  BY DEF Verdict
<1> HIDE DEF s, f, S, F
<1>5. ASSUME Verdict(a) = "success"
      PROVE  Fulfillable
  <2>1. /\ ~(max_failure_threshold >= 0 /\ f > max_failure_threshold)
        /\ s + f >= num_dependencies /\ f >= min_failure_threshold
        /\ NumFailed >= min_failure_threshold
    BY <1>1, <1>2, <1>3, <1>4, <1>5
  <2>2. CASE mode = "first_completed"
    <3>1. s >= 1 \/ f >= 1
      BY <1>1, <1>2, <2>1, <2>2
    <3>2. CASE s >= 1
      BY <1>2, <1>3, <2>1, <2>2, <3>2 DEF Fulfillable
    <3>3. CASE f >= 1
      <4>1. NumFailed >= 1 /\ max_failure_threshold # 0
        BY <1>2, <1>3, <2>1, <3>3
      <4> QED  BY <1>3, <2>1, <2>2, <4>1 DEF Fulfillable
    <3> QED  BY <3>1, <3>2, <3>3
  <2>3. CASE mode # "first_completed"
    <3>1. s + f >= N
      BY <1>1, <2>1, <2>3
    <3>2. S >= NumSucceeded /\ NumFailed = f /\ NumFailed + NumSucceeded >= N
      BY <1>2, <1>3, <3>1
    <3>3. ~TooManyFailures /\ NumFailed >= min_failure_threshold
      BY <2>1, <3>2 DEF TooManyFailures
    <3> QED  BY <1>3, <2>3, <3>2, <3>3 DEF Fulfillable
  <2> QED  BY <2>2, <2>3
<1>6. ASSUME Verdict(a) = "failure"
      PROVE  TooManyFailures \/ TooManySuccesses
  <2>1. CASE max_failure_threshold >= 0 /\ f > max_failure_threshold
    BY <1>2, <1>3, <2>1 DEF TooManyFailures
  <2>2. CASE s + min_failure_threshold > num_dependencies
    BY <1>1, <1>2, <1>3, <2>2 DEF TooManySuccesses
  <2>3. CASE s + f >= num_dependencies /\ f < min_failure_threshold
    <3>1. s + min_failure_threshold > num_dependencies
      BY <1>1, <1>2, <2>3
    <3> QED  BY <2>2, <3>1
  <2> QED  BY <1>1, <1>2, <1>4, <1>6, <2>1, <2>2, <2>3
<1> QED  BY <1>1, <1>4, <1>5, <1>6 DEF Rejectable

\* Main prepares the promise: nothing has been decided yet.
LEMMA MakingStep ==
  ASSUME AggregateInv, depend \/ set_limits \/ set_mode \/ start
  PROVE  AggregateInv'
<1> USE DEF AggregateInv
<1>1. /\ ~started /\ aggregate_state = "pending" /\ Main \in Callers
      /\ UNCHANGED <<dependency_results, aggregate, outcome, counts>>
      /\ pc' = [pc EXCEPT ![Main] = pc'[Main]]
      /\ pc'[Main] \in {"on_failure", "on_success", "depend", "limits", "mode", "start", "lock"}
  BY DEF depend, depend_index, depend_add, set_limits, set_mode, start, GoOn, Callers, aggregate,
         AggregateTypeOK, MakingInv, Aggregating, promise
<1>2. \A d \in Deps : d \in Callers /\ pc'[d] = pc[d]
  BY <1>1, AggregateAssumption DEF Callers, AggregateTypeOK
<1>3. AggregateTypeOK'
  <2>1. /\ num_dependencies' \in 0..N /\ started' \in BOOLEAN
        /\ mode' \in {"results", "fold", "first_completed"}
        /\ min_failure_threshold' \in 0..N /\ max_failure_threshold' \in Int
        /\ callbacks_added' \subseteq Deps \X Outcomes
    <3>1. CASE depend_index
      <4>1. num_dependencies' \in 0..N
        BY <3>1, Numbers DEF depend_index
      <4> QED  BY <3>1, <4>1 DEF depend_index, AggregateTypeOK
    <3>2. CASE depend_add
      <4>1. num_dependencies - 1 \in Deps
        <5>1. num_dependencies >= 1
          BY <3>2 DEF depend_add, MakingInv
        <5> QED  BY <5>1, Numbers DEF Deps
      <4>2. callbacks_added' \subseteq Deps \X Outcomes
        <5>1. \E o \in Outcomes : callbacks_added' = callbacks_added \cup {<<num_dependencies - 1, o>>}
          BY <3>2 DEF depend_add, Outcomes
        <5>2. callbacks_added \subseteq Deps \X Outcomes
          BY DEF AggregateTypeOK
        <5> HIDE DEF AggregateInv
        <5> QED  BY <4>1, <5>1, <5>2
      <4> QED  BY <3>2, <4>2 DEF depend_add, AggregateTypeOK, promise
    <3>3. CASE set_limits
      <4>1. max_failure_threshold' \in Int /\ min_failure_threshold' \in 0..N
        <5>1. MaxLimits \subseteq 0..N /\ MinLimits \subseteq 0..N
          BY AggregateAssumption
        <5>2. max_failure_threshold' \in MaxLimits \cup {-1} /\ min_failure_threshold' \in MinLimits
          BY <3>3 DEF set_limits
        <5> QED  BY <5>1, <5>2, Numbers
      <4> QED  BY <3>3, <4>1 DEF set_limits, AggregateTypeOK
    <3>4. CASE set_mode
      <4>1. mode' \in {"results", "fold", "first_completed"}
        BY <3>4, AggregateAssumption DEF set_mode
      <4>2. num_dependencies' \in 0..N
        BY <3>4, Numbers DEF set_mode
      <4> QED  BY <3>4, <4>1, <4>2 DEF set_mode, AggregateTypeOK
    <3>5. CASE start
      BY <3>5 DEF start, AggregateTypeOK
    <3> QED  BY <3>1, <3>2, <3>3, <3>4, <3>5 DEF depend
  <2>2. pc' \in [Callers -> Aggregating \cup
              {"none", "depend", "on_failure", "on_success", "limits", "mode", "start"}]
    BY <1>1 DEF AggregateTypeOK, Aggregating
  <2> QED  BY <1>1, <2>1, <2>2 DEF AggregateTypeOK, aggregate
<1>4. MakingInv'
  <2>1. \A d \in Deps :
          /\ pc'[d] \in {"none", "lock", "done"}
          /\ pc'[d] # "none" => outcome'[d] # "pending"
    BY <1>1, <1>2 DEF MakingInv
  <2>2. aggregate_state' = "pending"
    BY <1>1 DEF aggregate
  <2>3. /\ started' <=> pc'[Main] \in Aggregating
        /\ pc'[Main] # "none"
        /\ pc'[Main] \in {"on_failure", "on_success"} => num_dependencies' >= 1
        /\ pc'[Main] \in {"limits", "mode"} => num_dependencies' = N
        /\ started' \/ pc'[Main] = "start" =>
             num_dependencies' = IF mode' = "first_completed" THEN 1 ELSE N
    <3>1. CASE depend_index
      <4>1. num_dependencies' >= 1
        BY <3>1, Numbers DEF depend_index
      <4>2. pc'[Main] = "on_failure" /\ ~started'
        BY <1>1, <3>1 DEF depend_index, GoOn, AggregateTypeOK
      <4> QED  BY <4>1, <4>2 DEF Aggregating
    <3>2. CASE depend_add
      BY <1>1, <3>2, AggregateAssumption DEF depend_add, MakingInv, Aggregating, GoOn, AggregateTypeOK, promise
    <3>3. CASE set_limits
      BY <1>1, <3>3 DEF set_limits, MakingInv, Aggregating, GoOn, AggregateTypeOK
    <3>4. CASE set_mode
      BY <1>1, <3>4 DEF set_mode, MakingInv, Aggregating, GoOn, AggregateTypeOK
    <3>5. CASE start
      BY <1>1, <3>5 DEF start, MakingInv, Aggregating, GoOn, AggregateTypeOK
    <3> QED  BY <3>1, <3>2, <3>3, <3>4, <3>5 DEF depend
  <2> QED  BY <2>1, <2>2, <2>3 DEF MakingInv, Aggregating
<1>5. \A a \in Callers : pc'[a] \notin {"decide", "fold", "try_success", "try_failure"}
  <2>1. \A d \in Deps : pc'[d] \notin {"decide", "fold", "try_success", "try_failure"}
    BY <1>1, <1>2 DEF MakingInv
  <2> QED  BY <1>1, <2>1 DEF Callers
<1>6. RecordInv'
  BY <1>1, <1>5 DEF RecordInv, Succeeded, Failed
<1>7. DecisionInv' /\ SettledInv'
  BY <1>1, <1>5 DEF DecisionInv, SettledInv, aggregate
<1> QED  BY <1>3, <1>4, <1>6, <1>7

\* The steps that change neither the promise nor what is recorded, and end
\* no callback in a decision, keep what was decided.
LEMMA SameDecisions ==
  ASSUME UNCHANGED <<promise, dependency_results, outcome>>
  PROVE  /\ Fulfillable' <=> Fulfillable
         /\ Rejectable' <=> Rejectable
         /\ Succeeded' = Succeeded /\ Failed' = Failed /\ Settled' = Settled
         /\ TooManyFailures' <=> TooManyFailures
         /\ NumFailed' = NumFailed
BY DEF promise, Fulfillable, Rejectable, Succeeded, Failed, Settled, TooManyFailures,
       TooManySuccesses, NumFailed, NumSucceeded

\* The callback of a dependency begins.
LEMMA BeginStep ==
  ASSUME AggregateInv, NEW d \in Deps, aggregate_cb_call(d)
  PROVE  AggregateInv'
<1> USE DEF AggregateInv
<1>1. /\ UNCHANGED <<promise, dependency_results, aggregate, outcome, callbacks_added, counts>>
      /\ d \in Callers /\ d # Main /\ Main \in Callers
      /\ pc' = [pc EXCEPT ![d] = "lock"]
      /\ outcome[d] # "pending"
      /\ \A a \in Callers : pc'[a] = IF a = d THEN "lock" ELSE pc[a]
  <2>1. /\ UNCHANGED <<promise, dependency_results, aggregate, outcome, callbacks_added, counts>>
        /\ pc' = [pc EXCEPT ![d] = "lock"] /\ <<d, outcome[d]>> \in callbacks_added
    BY DEF aggregate_cb_call, GoOn
  <2>2. outcome[d] \in Outcomes
    BY <2>1 DEF AggregateTypeOK
  <2> QED  BY <2>1, <2>2, AggregateAssumption DEF Callers, AggregateTypeOK, Outcomes
<1>2. AggregateTypeOK'
  BY <1>1 DEF AggregateTypeOK, promise, aggregate, Aggregating
<1>3. MakingInv'
  BY <1>1 DEF MakingInv, promise, aggregate, Aggregating, Callers
<1>4. RecordInv'
  BY <1>1, SameDecisions DEF RecordInv
<1>5. DecisionInv'
  BY <1>1, SameDecisions DEF DecisionInv, promise
<1>6. SettledInv'
  BY <1>1, SameDecisions DEF SettledInv, promise, aggregate
<1> QED  BY <1>2, <1>3, <1>4, <1>5, <1>6

\* A dependency settles.  What was decided stays right: the numbers only
\* grow, and when all have settled nothing more can.
LEMMA SettleDependencyStep ==
  ASSUME AggregateInv, NEW d \in Deps, NEW o \in Outcomes, SettleDependency(d, o)
  PROVE  AggregateInv'
<1> USE DEF AggregateInv
<1>1. /\ UNCHANGED <<promise, dependency_results, aggregate, callbacks_added, pc, counts>>
      /\ outcome[d] = "pending" /\ outcome' = [outcome EXCEPT ![d] = o]
  BY DEF SettleDependency
<1>2. AggregateTypeOK'
  BY <1>1 DEF AggregateTypeOK, promise, aggregate
<1>3. /\ Succeeded \subseteq Succeeded' /\ Failed \subseteq Failed'
      /\ Settled # Deps
  BY <1>1 DEF AggregateTypeOK, Succeeded, Failed, Settled
<1>4. MakingInv'
  BY <1>1 DEF MakingInv, promise, aggregate, Aggregating, AggregateTypeOK, Outcomes
<1>5. RecordInv'
  BY <1>1, <1>3 DEF RecordInv
<1>6. NumFailed <= NumFailed' /\ NumSucceeded <= NumSucceeded'
  <2>1. Failed' \subseteq Deps /\ Succeeded' \subseteq Deps
    BY DEF Failed, Succeeded
  <2> QED  BY <1>3, <2>1, DepSets DEF NumFailed, NumSucceeded
<1>7. TooManyFailures => TooManyFailures'
  <2>1. NumFailed \in Nat /\ NumFailed' \in Nat /\ max_failure_threshold \in Int
    BY <1>2, OutcomeNumbers, Numbers, SettledNumbers
  <2> QED  BY <1>1, <1>6, <2>1 DEF TooManyFailures, promise
<1>8. TooManySuccesses => TooManySuccesses'
  <2>1. /\ NumSucceeded \in Nat /\ NumSucceeded' \in Nat
        /\ min_failure_threshold \in Nat /\ num_dependencies \in Nat
    BY <1>2, OutcomeNumbers, Numbers, SettledNumbers
  <2>2. /\ min_failure_threshold' = min_failure_threshold
        /\ num_dependencies' = num_dependencies
    BY <1>1 DEF promise
  <2>3. NumSucceeded + min_failure_threshold > num_dependencies =>
          NumSucceeded' + min_failure_threshold > num_dependencies
    <3>1. \A m, n, p, q \in Nat : m <= n /\ m + p > q => n + p > q
      OBVIOUS
    <3> QED  BY <1>6, <2>1, <3>1
  <2> QED  BY <2>2, <2>3 DEF TooManySuccesses
<1>8a. NumFailed >= min_failure_threshold => NumFailed' >= min_failure_threshold'
  <2>1. NumFailed \in Nat /\ NumFailed' \in Nat /\ min_failure_threshold \in Nat
    BY <1>2, OutcomeNumbers, Numbers, SettledNumbers
  <2>2. min_failure_threshold' = min_failure_threshold
    BY <1>1 DEF promise
  <2>3. \A m, n, p \in Nat : m <= n /\ m >= p => n >= p
    OBVIOUS
  <2> QED  BY <1>6, <2>1, <2>2, <2>3
<1>9. (Rejectable => Rejectable') /\ (Fulfillable => Fulfillable')
  <2>1. Rejectable => Rejectable'
    BY <1>7, <1>8 DEF Rejectable
  <2>2. mode' = mode /\ max_failure_threshold' = max_failure_threshold
    BY <1>1 DEF promise
  <2>3. Fulfillable => Fulfillable'
    BY <1>1, <1>3, <1>8a, <2>2 DEF Fulfillable
  <2> QED  BY <2>1, <2>3
<1>10. DecisionInv'
  BY <1>1, <1>9 DEF DecisionInv, promise
<1>11. SettledInv'
  BY <1>1, <1>3, <1>9, <1>8a DEF SettledInv, promise, aggregate
<1> QED  BY <1>2, <1>4, <1>5, <1>10, <1>11

\* What the callers do to their own place.
LEMMA OtherCallers ==
  ASSUME AggregateTypeOK, NEW a \in Callers, NEW where, GoOn(a, where)
  PROVE  \A b \in Callers : pc'[b] = IF b = a THEN where ELSE pc[b]
BY DEF AggregateTypeOK, GoOn

\* aggregate_cb() with the lock: it records the result and counts.
LEMMA LockStep ==
  ASSUME AggregateInv, NEW a \in Callers, aggregate_cb_lock(a)
  PROVE  AggregateInv'
<1> USE DEF AggregateInv
<1>1. /\ UNCHANGED <<promise, aggregate, outcome, callbacks_added>> /\ pc[a] = "lock"
      /\ \A d \in Deps : d \in Callers /\ d # Main
      /\ Main \in Callers
  BY AggregateAssumption DEF aggregate_cb_lock, Callers
<1>2. \E where \in {"decide", "done"} : /\ GoOn(a, where)
                                        /\ where = "decide" => started /\ counts'[a] = Sizes'
  BY DEF aggregate_cb_lock, AggregateTypeOK
<1>3. PICK where \in {"decide", "done"} :
        /\ GoOn(a, where)
        /\ where = "decide" => started /\ counts'[a] = Sizes'
  BY <1>2
<1>4. \A b \in Callers : pc'[b] = IF b = a THEN where ELSE pc[b]
  BY <1>3, OtherCallers
<1>5. /\ dependency_results' \in [Outcomes -> SUBSET Deps]
      /\ \A o \in Outcomes : /\ dependency_results[o] \subseteq dependency_results'[o]
                             /\ dependency_results'[o] \subseteq {d \in Deps : outcome[d] = o}
  <2>1. \A o \in Outcomes : dependency_results[o] \subseteq {d \in Deps : outcome[d] = o}
    BY DEF RecordInv, Outcomes, Succeeded, Failed
  <2>2. CASE a = Main \/ aggregate_state # "pending"
    <3>1. dependency_results' = dependency_results
      BY <2>2 DEF aggregate_cb_lock, Recorded
    <3> QED  BY <2>1, <3>1 DEF AggregateTypeOK
  <2>3. CASE a # Main /\ aggregate_state = "pending"
    <3>1. dependency_results' = [dependency_results EXCEPT ![outcome[a]] = @ \cup {a}]
      BY <2>3 DEF aggregate_cb_lock, Recorded
    <3>2. a \in Deps /\ outcome[a] \in Outcomes
      BY <1>1, <2>3 DEF Callers, MakingInv, AggregateTypeOK
    <3>3. dependency_results \in [Outcomes -> SUBSET Deps]
      BY DEF AggregateTypeOK
    <3> HIDE DEF AggregateInv
    <3>4. \A o \in Outcomes : dependency_results'[o] =
            IF o = outcome[a] THEN dependency_results[o] \cup {a} ELSE dependency_results[o]
      BY <3>1, <3>3
    <3>5. dependency_results' \in [Outcomes -> SUBSET Deps]
      BY <3>1, <3>2, <3>3
    <3> QED  BY <2>1, <3>2, <3>4, <3>5
  <2> QED  BY <2>2, <2>3
<1>6. \A o \in Outcomes : Cardinality(dependency_results[o]) <= Cardinality(dependency_results'[o])
                          /\ Cardinality(dependency_results[o]) \in Nat
                          /\ Cardinality(dependency_results'[o]) \in Nat
  BY <1>5, DepSets
<1>7. /\ counts' \in [Callers -> [Outcomes -> Nat]]
      /\ \A b \in Callers : b # a => counts'[b] = counts[b]
  <2>1. counts \in [Callers -> [Outcomes -> Nat]]
    BY DEF AggregateTypeOK
  <2>2. Sizes' \in [Outcomes -> Nat] /\ NoCount \in [Outcomes -> Nat]
    BY <1>6 DEF Sizes, NoCount, Outcomes
  <2>3. counts' = counts \/ counts' = [counts EXCEPT ![a] = Sizes'] \/ counts' = [counts EXCEPT ![a] = NoCount]
    BY DEF aggregate_cb_lock
  <2> HIDE DEF AggregateInv
  <2> QED  BY <2>1, <2>2, <2>3
<1>8. AggregateTypeOK'
  <2>1. pc' \in [Callers -> Aggregating \cup
              {"none", "depend", "on_failure", "on_success", "limits", "mode", "start"}]
    BY <1>3 DEF AggregateTypeOK, GoOn, Aggregating
  <2> QED  BY <1>1, <1>5, <1>7, <2>1 DEF AggregateTypeOK, promise, aggregate
<1>9. MakingInv'
  <2>1. \A d \in Deps :
          /\ pc'[d] \in Aggregating \cup {"none"}
          /\ ~started' => pc'[d] \in {"none", "lock", "done"}
          /\ pc'[d] # "none" => outcome'[d] # "pending"
    BY <1>1, <1>3, <1>4 DEF MakingInv, promise, Aggregating
  <2>2. /\ started' <=> pc'[Main] \in Aggregating
        /\ pc'[Main] = pc[Main] \/ (started /\ pc'[Main] \in {"decide", "done"})
    BY <1>1, <1>3, <1>4 DEF MakingInv, promise, Aggregating
  <2> QED  BY <1>1, <2>1, <2>2 DEF MakingInv, promise, aggregate
<1>10. RecordInv'
  <2>1. dependency_results'["success"] \subseteq Succeeded' /\ dependency_results'["failure"] \subseteq Failed'
    BY <1>1, <1>5 DEF Succeeded, Failed, Outcomes
  <2>2. ASSUME NEW b \in Callers, pc'[b] = "decide", NEW o \in Outcomes
        PROVE  counts'[b][o] <= Cardinality(dependency_results'[o])
    <3>1. CASE b = a
      <4>1. counts'[a] = Sizes'
        BY <1>3, <1>4, <2>2, <3>1
      <4>2. counts'[a][o] = Cardinality(dependency_results'[o])
        BY <4>1 DEF Sizes, Outcomes
      <4> QED  BY <1>6, <3>1, <4>2
    <3>2. CASE b # a
      <4>1. counts[b][o] <= Cardinality(dependency_results[o]) /\ counts[b][o] \in Nat
        BY <1>4, <2>2, <3>2 DEF RecordInv, AggregateTypeOK
      <4> QED  BY <1>6, <1>7, <3>2, <4>1
    <3> QED  BY <3>1, <3>2
  <2> QED  BY <2>1, <2>2 DEF RecordInv
<1>11. /\ Succeeded' = Succeeded /\ Failed' = Failed /\ Settled' = Settled
       /\ Rejectable' <=> Rejectable
       /\ TooManyFailures' <=> TooManyFailures
       /\ NumFailed' = NumFailed
  BY <1>1 DEF Succeeded, Failed, Settled, Rejectable, TooManyFailures, TooManySuccesses,
              NumFailed, NumSucceeded, promise
<1>12. Fulfillable => Fulfillable'
  <2>1. dependency_results'["success"] \subseteq Succeeded
    BY <1>10, <1>11 DEF RecordInv
  <2>2. dependency_results["success"] \subseteq dependency_results'["success"]
    BY <1>5 DEF Outcomes
  <2>3. /\ mode' = mode /\ max_failure_threshold' = max_failure_threshold
        /\ min_failure_threshold' = min_failure_threshold
    BY <1>1 DEF promise
  <2> HIDE DEF AggregateInv
  <2>4. NumFailed >= min_failure_threshold => NumFailed' >= min_failure_threshold'
    BY <1>11, <2>3
  <2>5. CASE mode = "first_completed"
    BY <1>11, <2>2, <2>3, <2>4, <2>5 DEF Fulfillable
  <2>6. CASE mode # "first_completed"
    BY <1>11, <2>1, <2>2, <2>3, <2>4, <2>6 DEF Fulfillable
  <2> QED  BY <2>5, <2>6
<1>13. DecisionInv'
  BY <1>1, <1>3, <1>4, <1>11, <1>12 DEF DecisionInv, promise
<1>14. SettledInv'
  BY <1>1, <1>11 DEF SettledInv, promise, aggregate
<1> QED  BY <1>8, <1>9, <1>10, <1>13, <1>14

\* A step of one caller that leaves the promise and the record alone.
LEMMA OwnStep ==
  ASSUME AggregateInv, NEW a \in Callers, NEW where, GoOn(a, where),
         pc[a] \in Aggregating, where \in {"done", "fold", "try_success", "try_failure"},
         where # "done" => started,
         UNCHANGED <<promise, dependency_results, outcome, callbacks_added>>,
         started \/ aggregate_state' = "pending",
         counts' = counts \/ counts' = [counts EXCEPT ![a] = NoCount],
         aggregate_state' \in {"pending", "fulfilled", "rejected", "fold error"},
         aggregate_result' \subseteq Deps,
         where \in {"fold", "try_success"} => Fulfillable,
         where = "try_success" => mode = "results",
         where = "try_failure" => Rejectable
  PROVE  /\ AggregateTypeOK' /\ MakingInv' /\ RecordInv' /\ DecisionInv'
<1> USE DEF AggregateInv
<1>1. /\ \A b \in Callers : pc'[b] = IF b = a THEN where ELSE pc[b]
      /\ \A d \in Deps : d \in Callers /\ d # Main
      /\ Main \in Callers
  BY OtherCallers, AggregateAssumption DEF Callers
<1>2. /\ counts' \in [Callers -> [Outcomes -> Nat]]
      /\ \A b \in Callers : b # a => counts'[b] = counts[b]
  <2>1. counts \in [Callers -> [Outcomes -> Nat]]
    BY DEF AggregateTypeOK
  <2>2. NoCount \in [Outcomes -> Nat]
    BY DEF NoCount, Outcomes
  <2> HIDE DEF AggregateInv
  <2> QED  BY <2>1, <2>2
<1>3. AggregateTypeOK'
  <2>1. pc' \in [Callers -> Aggregating \cup
              {"none", "depend", "on_failure", "on_success", "limits", "mode", "start"}]
    BY DEF AggregateTypeOK, GoOn, Aggregating
  <2> QED  BY <1>2, <2>1 DEF AggregateTypeOK, promise
<1>4. MakingInv'
  <2>1. \A d \in Deps :
          /\ pc'[d] \in Aggregating \cup {"none"}
          /\ ~started' => pc'[d] \in {"none", "lock", "done"}
          /\ pc'[d] # "none" => outcome'[d] # "pending"
    BY <1>1 DEF MakingInv, promise, Aggregating
  <2>2. /\ started' <=> pc'[Main] \in Aggregating
        /\ pc'[Main] = pc[Main] \/ (started /\ pc'[Main] \in Aggregating)
    BY <1>1 DEF MakingInv, promise, Aggregating
  <2> QED  BY <2>1, <2>2 DEF MakingInv, promise, Aggregating
<1>5. RecordInv'
  BY <1>1, <1>2, SameDecisions DEF RecordInv
<1>6. DecisionInv'
  BY <1>1, SameDecisions DEF DecisionInv, promise
<1> QED  BY <1>3, <1>4, <1>5, <1>6

\* aggregate_cb() without the lock: it decides on what it has counted.
LEMMA DecideStep ==
  ASSUME AggregateInv, NEW a \in Callers, aggregate_cb_decide(a)
  PROVE  AggregateInv'
<1>1. /\ pc[a] = "decide" /\ pc[a] \in Aggregating
      /\ UNCHANGED <<promise, dependency_results, aggregate, outcome, callbacks_added>>
      /\ counts' = [counts EXCEPT ![a] = NoCount]
  BY DEF aggregate_cb_decide, Aggregating
<1>2. PICK where \in {"done", "fold", "try_success", "try_failure"} :
        /\ GoOn(a, where)
        /\ where = "try_failure" => Verdict(a) = "failure"
        /\ where \in {"try_success", "fold"} => Verdict(a) = "success"
        /\ where = "try_success" => mode = "results"
  BY DEF aggregate_cb_decide
<1>3. /\ AggregateTypeOK' /\ MakingInv' /\ RecordInv' /\ DecisionInv'
  <2>1. /\ aggregate_state' \in {"pending", "fulfilled", "rejected", "fold error"}
        /\ aggregate_result' \subseteq Deps
    BY <1>1 DEF AggregateInv, AggregateTypeOK, aggregate
  <2>2. started
    BY <1>1, VerdictRight
  <2> QED  BY <1>1, <1>2, <2>1, <2>2, VerdictRight, OwnStep
<1>4. SettledInv'
  BY <1>1, SameDecisions DEF AggregateInv, SettledInv, promise, aggregate
<1> QED  BY <1>3, <1>4 DEF AggregateInv

\* It carries out what it has decided, if no one else has settled the
\* promise.
LEMMA CarryOutStep ==
  ASSUME AggregateInv, NEW a \in Callers, aggregate_cb_try(a) \/ aggregate_cb_fold(a)
  PROVE  AggregateInv'
<1>1. PICK newstate, value :
        /\ Settle(a, newstate, value)
        /\ \/ pc[a] = "try_failure" /\ newstate = "rejected" /\ value = {}
           \/ pc[a] = "try_success" /\ newstate = "fulfilled" /\ value = dependency_results["success"]
           \/ pc[a] = "fold" /\ newstate = "fulfilled" /\ value \in Folded
           \/ pc[a] = "fold" /\ newstate = "fold error" /\ value = {}
  BY DEF aggregate_cb_try, aggregate_cb_fold
<1>2. /\ GoOn(a, "done") /\ pc[a] \in Aggregating /\ pc[a] \notin {"lock", "done"}
      /\ UNCHANGED <<promise, dependency_results, outcome, callbacks_added, counts>>
      /\ IF aggregate_state = "pending"
         THEN aggregate_state' = newstate /\ aggregate_result' = value
         ELSE UNCHANGED aggregate
  BY <1>1 DEF Settle, Aggregating
<1>3. started
  <2>1. a \in Deps \/ a = Main
    BY DEF Callers
  <2> QED  BY <1>2, <2>1 DEF AggregateInv, MakingInv, Aggregating
<1>4. /\ dependency_results["success"] \subseteq Succeeded
      /\ Succeeded \subseteq Deps
  BY DEF AggregateInv, RecordInv, Succeeded
<1>5. value \subseteq dependency_results["success"] /\ newstate \in {"fulfilled", "rejected", "fold error"}
  BY <1>1 DEF Folded
<1>6. /\ AggregateTypeOK' /\ MakingInv' /\ RecordInv' /\ DecisionInv'
  <2>1. /\ aggregate_state' \in {"pending", "fulfilled", "rejected", "fold error"}
        /\ aggregate_result' \subseteq Deps
    BY <1>2, <1>4, <1>5 DEF AggregateInv, AggregateTypeOK, aggregate
  <2> QED  BY <1>2, <1>3, <2>1, OwnStep
<1>7. SettledInv'
  <2>1. CASE aggregate_state # "pending"
    BY <1>2, <2>1, SameDecisions DEF AggregateInv, SettledInv, promise, aggregate
  <2>2. CASE aggregate_state = "pending"
    <3>1. aggregate_state' = newstate /\ aggregate_result' = value /\ mode' = mode
          /\ max_failure_threshold' = max_failure_threshold
          /\ min_failure_threshold' = min_failure_threshold
      BY <1>2, <2>2 DEF promise
    <3>2. newstate = "rejected" => Rejectable
      BY <1>1 DEF AggregateInv, DecisionInv
    <3>3. ASSUME newstate = "fulfilled"
          PROVE  Fulfillable /\ (pc[a] = "try_success" => mode = "results")
      BY <1>1, <3>3 DEF AggregateInv, DecisionInv
    <3>4. newstate = "fulfilled" /\ mode # "first_completed" => value = dependency_results["success"]
      BY <1>1 DEF Folded
    <3>5. newstate = "fulfilled" /\ mode = "first_completed" =>
            \/ value = {} /\ dependency_results["success"] = {}
            \/ \E d \in dependency_results["success"] : value = {d}
      BY <1>1, <3>3 DEF Folded
    <3> QED  BY <1>2, <1>4, <1>5, <3>1, <3>2, <3>3, <3>4, <3>5, SameDecisions DEF SettledInv, Fulfillable
  <2> QED  BY <2>1, <2>2
<1> QED  BY <1>6, <1>7 DEF AggregateInv

\* The inductive invariant of the aggregated promise.  AggregateCorrect alone
\* is not inductive: a caller decides on numbers that it has counted with the
\* lock, and carries the decision out later, when more dependencies may have
\* settled and others have decided too.
THEOREM AggregateInvariance == AggregateSpec => []AggregateInv
<1>1. AggregateInit => AggregateInv
  <2> SUFFICES ASSUME AggregateInit PROVE AggregateInv
    OBVIOUS
  <2> USE DEF AggregateInit
  <2>1. Main \in Callers /\ \A d \in Deps : d \in Callers /\ d # Main
    BY AggregateAssumption DEF Callers
  <2>2. AggregateTypeOK
    <3>1. 0 \in 0..N
      BY Numbers
    <3>2. counts \in [Callers -> [Outcomes -> Nat]]
      BY DEF NoCount, Outcomes
    <3>3. pc \in [Callers -> Aggregating \cup
              {"none", "depend", "on_failure", "on_success", "limits", "mode", "start"}]
      OBVIOUS
    <3>4. /\ dependency_results \in [Outcomes -> SUBSET Deps]
          /\ outcome \in [Deps -> Outcomes \cup {"pending"}]
      BY DEF Outcomes
    <3>5. /\ num_dependencies \in 0..N /\ min_failure_threshold \in 0..N
          /\ max_failure_threshold \in Int
      BY <3>1
    <3>6. started \in BOOLEAN
      OBVIOUS
    <3> QED  BY <3>2, <3>3, <3>4, <3>5, <3>6 DEF AggregateTypeOK
  <2>3. MakingInv
    BY <2>1 DEF MakingInv, Aggregating
  <2>4. RecordInv
    BY <2>1 DEF RecordInv, Callers
  <2>5. DecisionInv /\ SettledInv
    BY <2>1 DEF DecisionInv, SettledInv, Callers
  <2> QED  BY <2>2, <2>3, <2>4, <2>5 DEF AggregateInv
<1>2. AggregateInv /\ [AggregateNext]_aggregate_vars => AggregateInv'
  <2> SUFFICES ASSUME AggregateInv, [AggregateNext]_aggregate_vars
               PROVE  AggregateInv'
    OBVIOUS
  <2>1. CASE MainStep
    BY <2>1, MakingStep DEF MainStep
  <2>2. ASSUME NEW a \in Callers, aggregate_cb(a)
        PROVE  AggregateInv'
    BY <2>2, LockStep, DecideStep, CarryOutStep DEF aggregate_cb
  <2>3. ASSUME NEW d \in Deps, aggregate_cb_call(d)
        PROVE  AggregateInv'
    BY <2>3, BeginStep
  <2>4. ASSUME NEW d \in Deps, NEW o \in {"success", "failure"}, SettleDependency(d, o)
        PROVE  AggregateInv'
    BY <2>4, SettleDependencyStep DEF Outcomes
  <2>5. CASE UNCHANGED aggregate_vars
    <3>1. /\ UNCHANGED <<promise, dependency_results, outcome, callbacks_added, pc, counts>>
          /\ UNCHANGED aggregate
      BY <2>5 DEF aggregate_vars
    <3>2. UNCHANGED <<num_dependencies, started, mode, min_failure_threshold,
                      max_failure_threshold, aggregate_state, aggregate_result>>
      BY <3>1 DEF promise, aggregate
    <3> QED  BY <3>1, <3>2, SameDecisions DEF AggregateInv, AggregateTypeOK, MakingInv, RecordInv, DecisionInv,
                 SettledInv
  <2> QED  BY <2>1, <2>2, <2>3, <2>4, <2>5 DEF AggregateNext
<1> QED  BY <1>1, <1>2, PTL DEF AggregateSpec

\* For any number of dependencies, limits and mode, the aggregated promise
\* tells the truth about its dependencies although aggregate_cb() counts with
\* the lock and decides without it: it is rejected only for too many failures
\* or too many successes, which for first_completed() are two, and fulfilled
\* only with what AggregateCorrect says.
THEOREM AggregateTruth == AggregateSpec => []AggregateCorrect
<1>1. AggregateInv => AggregateCorrect
  BY DEF AggregateInv, RecordInv, SettledInv, Rejectable, AggregateCorrect
<1> QED  BY <1>1, AggregateInvariance, PTL

-----------------------------------------------------------------------------
(* No result is missed.                                                    *)

\* The numbers c are enough to decide.
Enough(c) ==
  \/ max_failure_threshold >= 0 /\ c["failure"] > max_failure_threshold
  \/ c["success"] + min_failure_threshold > num_dependencies
  \/ c["success"] + c["failure"] >= num_dependencies

\* The callback a will decide, or has decided.
WillDecide(a) ==
  \/ pc[a] \in {"lock", "fold", "try_success", "try_failure"}
  \/ pc[a] = "decide" /\ counts[a] = Sizes

\* While the promise is pending, every callback that has had the lock has
\* recorded its result, and if they are enough to decide then someone will.
NoneMissedInv ==
  aggregate_state = "pending" =>
    /\ \A d \in Deps : pc[d] \notin {"none", "lock"} => d \in dependency_results[outcome[d]]
    /\ started /\ Enough(Sizes) => \E a \in Callers : WillDecide(a)

\* No callback of a settled dependency is still to run.
Idle == \A a \in Callers : pc[a] = "done" \/ (a # Main /\ outcome[a] = "pending")

\* The dependencies have settled so that the promise has to.
Decidable ==
  \/ Settled = Deps
  \/ TooManyFailures
  \/ mode = "first_completed" /\ Settled # {}

\* When the promise is started and no callback is still to run, it is settled
\* if it has to be: the last one to record a result, or start(), has counted
\* all of them.
NoneMissed == started /\ Idle /\ Decidable => aggregate_state # "pending"

\* The tests of aggregate_cb() want more exactly when what it has counted is
\* not enough.
LEMMA WantsMore ==
  ASSUME AggregateTypeOK, NEW a \in Callers
  PROVE  Verdict(a) = "more" <=> ~Enough(counts[a])
<1>1. counts[a]["success"] \in Nat /\ counts[a]["failure"] \in Nat
  BY DEF AggregateTypeOK, Outcomes
<1> QED  BY <1>1, Numbers DEF Verdict, Enough

\* A step that leaves the promise and the record alone, and after which
\* whoever would decide still will.
LEMMA StillDecides ==
  ASSUME NoneMissedInv, AggregateInv,
         UNCHANGED <<promise, dependency_results, outcome>>,
         aggregate_state' = "pending" => aggregate_state = "pending",
         \A d \in Deps : pc'[d] \notin {"none", "lock"} => pc[d] \notin {"none", "lock"},
         Enough(Sizes) => \A a \in Callers : WillDecide(a) => WillDecide(a)'
  PROVE  NoneMissedInv'
<1>1. Sizes' = Sizes /\ (Enough(Sizes) <=> Enough(Sizes)') /\ started' = started
  BY DEF Sizes, Enough, promise
<1> QED  BY <1>1 DEF NoneMissedInv

\* Every step keeps it so.
LEMMA NoneMissedStep ==
  ASSUME AggregateInv, NoneMissedInv, [AggregateNext]_aggregate_vars
  PROVE  NoneMissedInv'
<1>0. AggregateTypeOK /\ MakingInv /\ Main \in Callers /\ \A d \in Deps : d \in Callers /\ d # Main
  BY AggregateAssumption DEF AggregateInv, Callers
<1>1. CASE MainStep
  <2>1. /\ ~started /\ aggregate_state = "pending"
        /\ UNCHANGED <<dependency_results, aggregate, outcome, counts>>
        /\ \A d \in Deps : pc'[d] = pc[d]
        /\ started' => pc'[Main] = "lock"
    <3>1. ~started /\ aggregate_state = "pending"
      BY <1>0, <1>1 DEF MainStep, depend, depend_index, depend_add, set_limits, set_mode, start,
           MakingInv, Aggregating
    <3>2. PICK where : GoOn(Main, where) /\ (started' => where = "lock")
      BY <1>1, <3>1 DEF MainStep, depend, depend_index, depend_add, set_limits, set_mode, start, promise
    <3>3. UNCHANGED <<dependency_results, aggregate, outcome, counts>>
      BY <1>1 DEF MainStep, depend, depend_index, depend_add, set_limits, set_mode, start
    <3>4. \A b \in Callers : pc'[b] = IF b = Main THEN where ELSE pc[b]
      BY <1>0, <3>2, OtherCallers
    <3> QED  BY <1>0, <3>1, <3>2, <3>3, <3>4
  <2>2. started' => WillDecide(Main)'
    BY <2>1 DEF WillDecide
  <2> QED  BY <1>0, <2>1, <2>2 DEF NoneMissedInv
<1>2. ASSUME NEW a \in Callers, aggregate_cb_lock(a)
      PROVE  NoneMissedInv'
  <2>1. CASE aggregate_state # "pending"
    <3>1. aggregate_state' # "pending"
      BY <1>2, <2>1 DEF aggregate_cb_lock, aggregate
    <3> QED  BY <3>1 DEF NoneMissedInv
  <2>2. CASE aggregate_state = "pending"
    <3>1. /\ dependency_results' = Recorded(a) /\ UNCHANGED <<outcome, promise>>
          /\ pc[a] = "lock"
          /\ counts' = [counts EXCEPT ![a] = IF started THEN Sizes' ELSE NoCount]
          /\ GoOn(a, IF started THEN "decide" ELSE "done")
      BY <1>2, <2>2 DEF aggregate_cb_lock
    <3>2. \A b \in Callers : pc'[b] = IF b = a THEN (IF started THEN "decide" ELSE "done") ELSE pc[b]
      BY <1>0, <3>1, OtherCallers
    <3>3. ASSUME NEW d \in Deps, pc'[d] \notin {"none", "lock"}
          PROVE  d \in dependency_results'[outcome'[d]]
      <4>1. outcome[d] \in Outcomes /\ dependency_results \in [Outcomes -> SUBSET Deps]
        <5>1. pc[d] # "none"
          BY <1>0, <3>1, <3>2, <3>3
        <5> QED  BY <1>0, <5>1 DEF MakingInv, AggregateTypeOK
      <4>2. CASE d = a
        <5>1. dependency_results' = [dependency_results EXCEPT ![outcome[a]] = @ \cup {a}]
          BY <1>0, <3>1, <4>2 DEF Recorded
        <5> QED  BY <3>1, <4>1, <4>2, <5>1
      <4>3. CASE d # a
        <5>1. d \in dependency_results[outcome[d]]
          BY <1>0, <2>2, <3>2, <3>3, <4>3 DEF NoneMissedInv
        <5>2. CASE a = Main
          BY <3>1, <5>1, <5>2 DEF Recorded
        <5>3. CASE a # Main
          <6>1. dependency_results' = [dependency_results EXCEPT ![outcome[a]] = @ \cup {a}]
            BY <3>1, <5>3 DEF Recorded
          <6>2. dependency_results[outcome[d]] \subseteq dependency_results'[outcome[d]]
            BY <4>1, <6>1
          <6> QED  BY <3>1, <5>1, <6>2
        <5> QED  BY <5>2, <5>3
      <4> QED  BY <4>2, <4>3
    <3>4. started' => WillDecide(a)'
      <4>1. counts' = [counts EXCEPT ![a] = IF started THEN Sizes' ELSE NoCount] /\ counts \in [Callers -> [Outcomes -> Nat]]
        BY <1>0, <3>1 DEF AggregateTypeOK
      <4> QED  BY <3>1, <3>2, <4>1 DEF WillDecide, promise
    <3> QED  BY <3>3, <3>4 DEF NoneMissedInv
  <2> QED  BY <2>1, <2>2
<1>3. ASSUME NEW a \in Callers, aggregate_cb_decide(a)
      PROVE  NoneMissedInv'
  <2>1. /\ UNCHANGED <<promise, dependency_results, aggregate, outcome>> /\ pc[a] = "decide"
        /\ counts' = [counts EXCEPT ![a] = NoCount]
    BY <1>3 DEF aggregate_cb_decide
  <2>2. PICK where \in {"done", "fold", "try_success", "try_failure"} :
          /\ GoOn(a, where)
          /\ where = "done" => Verdict(a) = "more"
    BY <1>3 DEF aggregate_cb_decide
  <2>3. \A b \in Callers : pc'[b] = IF b = a THEN where ELSE pc[b]
    BY <1>0, <2>2, OtherCallers
  <2>4. ASSUME Enough(Sizes), NEW b \in Callers, WillDecide(b)
        PROVE  WillDecide(b)'
    <3>1. CASE b = a
      <4>1. counts[a] = Sizes
        BY <2>1, <2>4, <3>1 DEF WillDecide
      <4>2. where # "done"
        BY <1>0, <2>2, <2>4, <4>1, WantsMore
      <4> QED  BY <2>2, <2>3, <3>1, <4>2 DEF WillDecide
    <3>2. CASE b # a
      <4>1. counts'[b] = counts[b] /\ pc'[b] = pc[b]
        BY <1>0, <2>1, <2>3, <3>2 DEF AggregateTypeOK
      <4>2. Sizes' = Sizes
        BY <2>1 DEF Sizes
      <4> QED  BY <2>4, <4>1, <4>2 DEF WillDecide
    <3> QED  BY <3>1, <3>2
  <2>5. aggregate_state' = aggregate_state
    BY <2>1 DEF aggregate
  <2> QED  BY <1>0, <2>1, <2>3, <2>4, <2>5, StillDecides
<1>4. ASSUME NEW a \in Callers, aggregate_cb_fold(a) \/ aggregate_cb_try(a)
      PROVE  NoneMissedInv'
  <2>1. PICK newstate \in {"rejected", "fulfilled", "fold error"}, value \in SUBSET Deps :
          Settle(a, newstate, value)
    <3>1. dependency_results["success"] \subseteq Deps
      BY <1>0 DEF AggregateTypeOK, Outcomes
    <3>2. \A value \in Folded : value \subseteq Deps
      BY <3>1 DEF Folded
    <3> QED  BY <1>4, <3>1, <3>2 DEF aggregate_cb_fold, aggregate_cb_try
  <2>2. aggregate_state' # "pending"
    BY <2>1 DEF Settle, aggregate
  <2> QED  BY <2>2 DEF NoneMissedInv
<1>5. ASSUME NEW d \in Deps, aggregate_cb_call(d)
      PROVE  NoneMissedInv'
  <2>1. /\ UNCHANGED <<promise, dependency_results, aggregate, outcome, counts>>
        /\ \A b \in Callers : pc'[b] = IF b = d THEN "lock" ELSE pc[b]
    BY <1>0, <1>5, OtherCallers DEF aggregate_cb_call
  <2>2. \A a \in Callers : WillDecide(a) => WillDecide(a)'
    BY <2>1 DEF WillDecide, Sizes
  <2>3. aggregate_state' = aggregate_state
    BY <2>1 DEF aggregate
  <2> QED  BY <1>0, <2>1, <2>2, <2>3, StillDecides
<1>6. ASSUME NEW d \in Deps, NEW o \in {"success", "failure"}, SettleDependency(d, o)
      PROVE  NoneMissedInv'
  <2>1. /\ UNCHANGED <<promise, dependency_results, aggregate, pc, counts>>
        /\ outcome[d] = "pending" /\ outcome' = [outcome EXCEPT ![d] = o]
    BY <1>6 DEF SettleDependency
  <2>2. \A e \in Deps : pc'[e] # "none" => outcome'[e] = outcome[e]
    BY <1>0, <2>1 DEF MakingInv, AggregateTypeOK
  <2>3. /\ Sizes' = Sizes /\ (Enough(Sizes) <=> Enough(Sizes)')
        /\ started' = started /\ aggregate_state' = aggregate_state
    BY <2>1 DEF Sizes, Enough, promise, aggregate
  <2>4. \A a \in Callers : WillDecide(a) <=> WillDecide(a)'
    BY <2>1 DEF WillDecide, Sizes
  <2> QED  BY <2>1, <2>2, <2>3, <2>4 DEF NoneMissedInv
<1>7. CASE UNCHANGED aggregate_vars
  <2>1. /\ UNCHANGED <<promise, dependency_results, outcome, pc, counts>>
        /\ UNCHANGED aggregate
    BY <1>7 DEF aggregate_vars
  <2>2. aggregate_state' = aggregate_state
    BY <2>1 DEF aggregate
  <2>3. \A a \in Callers : WillDecide(a) => WillDecide(a)'
    BY <2>1 DEF WillDecide, Sizes
  <2> QED  BY <2>1, <2>2, <2>3, StillDecides
<1> QED  BY <1>1, <1>2, <1>3, <1>4, <1>5, <1>6, <1>7 DEF AggregateNext, aggregate_cb

\* Of what AggregateSettles promises under fairness, the part that needs
\* none: the results that arrive between depend() and start(), and those that
\* several threads count at once, are not missed.
THEOREM NothingMissed == AggregateSpec => []NoneMissed
<1>1. AggregateInit => NoneMissedInv
  <2> SUFFICES ASSUME AggregateInit PROVE NoneMissedInv
    OBVIOUS
  <2>1. ~started /\ \A d \in Deps : pc[d] = "none"
    BY AggregateAssumption DEF AggregateInit, Callers
  <2> QED  BY <2>1 DEF NoneMissedInv
<1>2. AggregateInv /\ NoneMissedInv => NoneMissed
  <2> SUFFICES ASSUME AggregateInv, NoneMissedInv, started, Idle, Decidable, aggregate_state = "pending"
               PROVE  FALSE
    BY DEF NoneMissed
  <2>1. AggregateTypeOK /\ MakingInv /\ RecordInv /\ Main \in Callers /\ \A d \in Deps : d \in Callers /\ d # Main
    BY AggregateAssumption DEF AggregateInv, Callers
  <2>2. \A a \in Callers : ~WillDecide(a)
    <3>1. \A d \in Deps : outcome[d] = "pending" => pc[d] = "none"
      BY <2>1 DEF MakingInv
    <3> QED  BY <2>1, <3>1 DEF Idle, WillDecide, Callers
  <2>3. ~Enough(Sizes)
    BY <2>2 DEF NoneMissedInv
  <2>4. dependency_results["success"] = Succeeded /\ dependency_results["failure"] = Failed
    <3>1. \A d \in Deps : outcome[d] # "pending" => pc[d] = "done"
      BY <2>1 DEF Idle
    <3>2. \A d \in Deps : outcome[d] # "pending" => d \in dependency_results[outcome[d]]
      BY <3>1 DEF NoneMissedInv
    <3> QED  BY <2>1, <3>2 DEF RecordInv, Succeeded, Failed
  <2>5. Sizes["success"] = NumSucceeded /\ Sizes["failure"] = NumFailed
    BY <2>4 DEF Sizes, NumSucceeded, NumFailed
  <2>6. NumFailed \in Nat /\ NumSucceeded \in Nat
    BY <2>1, OutcomeNumbers
  <2>7. num_dependencies = IF mode = "first_completed" THEN 1 ELSE N
    BY <2>1 DEF MakingInv
  <2>8. ~TooManyFailures
    BY <2>3, <2>5 DEF Enough, TooManyFailures
  <2>9. NumFailed + NumSucceeded = Cardinality(Settled) /\ Cardinality(Settled) \in Nat
    BY <2>1, OutcomeNumbers
  <2>10. ~(NumSucceeded + NumFailed >= num_dependencies)
    BY <2>3, <2>5 DEF Enough
  <2>11. Settled # Deps
    <3>1. SUFFICES ASSUME Settled = Deps PROVE FALSE
      OBVIOUS
    <3>2. NumFailed + NumSucceeded = N
      BY <2>9, <3>1, DepSets
    <3> QED  BY <2>6, <2>7, <2>10, <3>2, Numbers
  <2>12. Settled # {} => Cardinality(Settled) >= 1
    <3>1. Cardinality(Settled) # 0 \/ Settled = {}
      <4>1. IsFiniteSet(Settled)
        BY DepSets DEF Settled
      <4> QED  BY <4>1, FS_EmptySet
    <3> QED  BY <2>9, <3>1
  <2>13. mode = "first_completed" /\ Settled # {}
    BY <2>8, <2>11 DEF Decidable
  <2> QED  BY <2>6, <2>7, <2>9, <2>10, <2>12, <2>13
<1> QED  BY <1>1, <1>2, NoneMissedStep, AggregateInvariance, PTL DEF AggregateSpec

=============================================================================
