------------------------------ MODULE GcCycle -------------------------------
(* The cycle check pass of the garbage collector, and the free and kill    *)
(* passes that rest on it (src/src/gc.c).  The things are those without    *)
(* external references.  The pass finds out which of them live objects     *)
(* refer to, and in which order the live objects are destructed.           *)
EXTENDS Integers, Sequences, FiniteSets, Functions

CONSTANTS
  N,          \* number of things, numbered as they are on the gc_internal_* lists
  MaxRefs,    \* bound on the references between them
  Strengths   \* that references may have

ASSUME GcAssumption ==
  /\ N \in Nat \ {0}
  /\ MaxRefs \in Nat
  /\ Strengths \subseteq {"weak", "normal", "strong"}

Things == 1..N

VARIABLES
  refs,       \* the references (from, to), each with its strength
  live_obj,   \* objects with code to run when they are destructed
  pass,       \* Pike_in_gc
  next,       \* where gc_cycle_check_all_*() is on the gc_internal_* lists
  checked,    \* things with GC_CYCLE_CHECKED
  live,       \* things with GC_LIVE
  extra,      \* things that the gc has an extra reference to
  stack,      \* the recursion stack, its top last
  link_top,   \* for each frame, the links that are still to be followed
  rf_flags,   \* for each frame, its GC_PREV_* flags
  cycle_id,   \* for each frame, the frame that names its cycle
  piece,      \* for each frame on the stack, its cycle piece list
  mark_live,  \* whether the dummy frame with GC_MARK_LIVE is on the stack
  mark_links, \* the links in the dummy frame
  kill_list,  \* live objects in the order in which they are destructed
  destructed  \* the things that are gone

heap == <<refs, live_obj>>
order == <<stack, rf_flags, cycle_id>>
frames == <<order, link_top, piece>>
dummy == <<mark_live, mark_links>>
gc_vars == <<heap, pass, next, checked, live, extra, frames, dummy, kill_list, destructed>>

-----------------------------------------------------------------------------
(* Frames and links.                                                       *)

Highest(S) == CHOOSE i \in S : \A j \in S : j <= i

Top == stack[Len(stack)]
Position(t) == CHOOSE i \in DOMAIN stack : stack[i] = t
OnPieceList(t) == \E u \in Range(stack) : t \in Range(piece[u])

\* The frame on the stack that a chain of cycle_id from t ends at: its own, or
\* the one that has it on its cycle piece list.
Root(t) ==
  IF t \in Range(stack) THEN t
  ELSE CHOOSE u \in Range(stack) : t \in Range(piece[u])

\* The links that the gc_cycle_check function of a thing enqueues.
Links(t) == {u \in Things : <<t, u>> \in DOMAIN refs}

\* GC_CYCLE_ENTER_OBJECT(): the things known to be live once t is entered.
Entered(t) == live \cup ({t} \cap live_obj)

RotateBegMutant(b) == b

\* rotate_rec_stack(): where the rotation begins if it is asked to begin at b;
\* chains of strong references are not broken.
RotateBeg(b) == Highest({i \in 1..b : "STRONG" \notin rf_flags[stack[i]]})

\* The stack when the part from b is exchanged with the part from p.
Rotated(b, p) ==
  SubSeq(stack, 1, b - 1) \o SubSeq(stack, p, Len(stack)) \o SubSeq(stack, b, p - 1)

-----------------------------------------------------------------------------
(* gc_cycle_push().  from is the set with the thing that the link comes    *)
(* from; it is empty for a thing on the lists.                             *)

\* A thing that has not been visited gets a frame.
push_frame(t, strength, from) ==
  /\ t \notin checked
  /\ checked' = checked \cup {t}
  /\ live' = Entered(t) \cup {u \in {t} : from \cap live # {}}
  /\ stack' = Append(stack, t)
  /\ link_top' = [u \in Things |-> IF u = t THEN Links(t)
                                   ELSE IF u \in from THEN link_top[u] \ {t} ELSE link_top[u]]
  /\ rf_flags' = [rf_flags EXCEPT ![t] =
       CASE strength = "weak" -> {"WEAK"} [] strength = "strong" -> {"STRONG"} [] OTHER -> {}]
  /\ cycle_id' = [cycle_id EXCEPT ![t] = t]
  /\ piece' = [piece EXCEPT ![t] = <<>>]
  /\ UNCHANGED <<extra, dummy>>

\* A nonweak link back to t, and a weak one at position pos of the stack: the
\* stack is rotated there, with the whole cycle of t, and no cycle is marked.
break_weak(t, pos) ==
  /\ stack' = Rotated(RotateBeg(Position(cycle_id[Root(t)])), pos)
  /\ rf_flags' = [rf_flags EXCEPT ![stack[pos]] = @ \cup {"BROKEN"}]
  /\ UNCHANGED cycle_id

break_atMutant(t, strength, pos) ==
  LET beg == RotateBeg(Position(Root(t)))
  IN /\ stack' = Rotated(beg, pos)
     /\ rf_flags' = [rf_flags EXCEPT
          ![stack[pos]] = @ \cup {"BROKEN"},
          ![stack[beg]] = (@ \ {"WEAK", "BROKEN"}) \cup {f \in {"STRONG"} : strength = "strong"}]
     /\ cycle_id' = [u \in Things |->
          IF \E i \in beg..Len(stack) : stack[i] = u THEN cycle_id[Root(t)] ELSE cycle_id[u]]

\* No weak link: the stack is rotated at pos, and what is above it becomes one
\* cycle, whose name is kept deepest.
break_at(t, strength, pos) ==
  LET beg == RotateBeg(Position(Root(t)))
      before == {cycle_id[stack[i]] : i \in {beg - 1} \cap DOMAIN stack}
      id == IF cycle_id[stack[beg]] \in before THEN cycle_id[Root(t)] ELSE stack[pos]
  IN /\ stack' = Rotated(beg, pos)
     /\ rf_flags' = [rf_flags EXCEPT
          ![stack[pos]] = @ \cup {"BROKEN"},
          ![stack[beg]] = (@ \ {"WEAK", "BROKEN"}) \cup {f \in {"STRONG"} : strength = "strong"}]
     /\ cycle_id' = [u \in Things |->
          IF \E i \in beg..Len(stack) : stack[i] = u THEN id ELSE cycle_id[u]]

\* No place to break: what is above the frame of t joins its cycle.
mark_cycle(t) ==
  /\ cycle_id' = [u \in Things |->
       IF \E i \in Position(Root(t))..Len(stack) : stack[i] = u
       THEN cycle_id[Root(t)] ELSE cycle_id[u]]
  /\ UNCHANGED <<stack, rf_flags>>

\* A link to a thing that is on the stack or on a cycle piece list.
cyclic_ref(t, strength) ==
  LET above == {i \in DOMAIN stack : i > Position(Root(t))}
      Flagged(flag) == {i \in above : flag \in rf_flags[stack[i]]}
      weak == Flagged("WEAK")
      broken == Flagged("BROKEN")
      nonstrong == {i \in above \ Flagged("STRONG") : strength = "strong"}
  IN \/ /\ t = Top \/ strength = "weak"
        /\ UNCHANGED order
     \/ /\ t # Top /\ strength # "weak" /\ weak # {}
        /\ break_weak(t, Highest(weak))
     \/ /\ t # Top /\ strength # "weak" /\ weak = {} /\ broken # {}
        /\ break_at(t, strength, Highest(broken))
     \/ /\ t # Top /\ strength # "weak" /\ weak = {} /\ broken = {} /\ nonstrong # {}
        /\ break_at(t, strength, Highest(nonstrong))
     \/ /\ t # Top /\ strength # "weak" /\ weak = {} /\ broken = {} /\ nonstrong = {}
        /\ mark_cycle(t)

\* A link to a thing that has been visited.
push_visited(t, strength, from) ==
  /\ t \in checked
  /\ \/ (t \in Range(stack) \/ OnPieceList(t)) /\ cyclic_ref(t, strength)
     \/ t \notin Range(stack) /\ ~OnPieceList(t) /\ UNCHANGED order
  /\ link_top' = [u \in Things |-> IF u \in from THEN link_top[u] \ {t} ELSE link_top[u]]
  /\ UNCHANGED <<checked, piece>>

\* A link from a live thing leads to a visited one that was not known to be
\* live: it is, and has no extra reference to be freed with.
Revives(t, from) == t \in checked /\ t \notin Entered(t) /\ from \cap live # {}

push_live(t, from) ==
  \/ /\ Revives(t, from)
     /\ live' = live \cup {t}
     /\ extra' = extra \ {t}
     /\ mark_live' = TRUE
     /\ mark_links' = Links(t)
  \/ /\ ~Revives(t, from)
     /\ live' = Entered(t)
     /\ UNCHANGED <<extra, dummy>>

gc_cycle_push(t, strength, from) ==
  \/ push_frame(t, strength, from)
  \/ push_visited(t, strength, from) /\ push_live(t, from)

-----------------------------------------------------------------------------
(* The cycle check pass.                                                   *)

\* gc_cycle_check_all_*(): the next thing, when the stack is empty.
gc_cycle_check_all ==
  /\ pass = "cycle"
  /\ stack = <<>>
  /\ next <= N
  /\ next' = next + 1
  /\ gc_cycle_push(next, "normal", {})
  /\ UNCHANGED <<heap, pass, kill_list, destructed>>

\* gc_cycle_run_queue() follows a link of the thing on top.  The strong one was
\* enqueued last.
follow_link ==
  /\ stack # <<>>
  /\ ~mark_live
  /\ \E t \in link_top[Top] :
       /\ \A u \in link_top[Top] : refs[<<Top, u>>] = "strong" => u = t
       /\ gc_cycle_push(t, refs[<<Top, t>>], {Top})
  /\ UNCHANGED <<heap, pass, next, kill_list, destructed>>

follow_mark_linkMutant ==
  /\ mark_live
  /\ \E t \in mark_links :
       /\ live' = IF t \in checked THEN live \cup {t} ELSE Entered(t)
       /\ mark_links' = (mark_links \ {t}) \cup
            (IF t \in checked /\ t \notin Entered(t) THEN Links(t) ELSE {})
  /\ UNCHANGED <<heap, pass, next, checked, extra, frames, mark_live, kill_list, destructed>>

\* gc_cycle_run_queue() follows a link of the dummy frame: gc_cycle_push() goes
\* on through things that have been visited.
follow_mark_link ==
  /\ mark_live
  /\ \E t \in mark_links :
       IF t \in checked /\ t \notin Entered(t)
       THEN /\ live' = live \cup {t}
            /\ extra' = extra \ {t}
            /\ mark_links' = (mark_links \ {t}) \cup Links(t)
       ELSE /\ live' = Entered(t)
            /\ mark_links' = mark_links \ {t}
            /\ UNCHANGED extra
  /\ UNCHANGED <<heap, pass, next, checked, frames, mark_live, kill_list, destructed>>

\* gc_cycle_pop() of the dummy frame.
pop_mark_live ==
  /\ mark_live
  /\ mark_links = {}
  /\ mark_live' = FALSE
  /\ UNCHANGED <<heap, pass, next, checked, live, extra, frames, mark_links, kill_list,
                 destructed>>

\* gc_cycle_pop() of the frame on top, whose links have been followed.
Popped ==
  /\ stack # <<>>
  /\ ~mark_live
  /\ link_top[Top] = {}
  /\ stack' = SubSeq(stack, 1, Len(stack) - 1)

\* Its cycle extends further back: it goes with its cycle piece list in front
\* of the list of the frame before it.
pop_piece ==
  /\ Popped
  /\ cycle_id[Top] # Top
  /\ LET before == stack[Len(stack) - 1]
     IN /\ piece' = [piece EXCEPT ![before] = <<Top>> \o piece[Top] \o @, ![Top] = <<>>]
        /\ cycle_id' = [cycle_id EXCEPT ![Top] = before]
  /\ UNCHANGED <<heap, pass, next, checked, live, extra, link_top, rf_flags, dummy,
                 kill_list, destructed>>

\* The live objects of a cycle, in its order.
LiveObjects(cycle) ==
  LET kept[n \in 0..Len(cycle)] ==
        IF n = 0 THEN <<>>
        ELSE IF cycle[n] \in live_obj THEN Append(kept[n - 1], cycle[n])
        ELSE kept[n - 1]
  IN kept[Len(cycle)]

\* It is the last of its cycle: the live objects of the cycle go in front of
\* the kill list, and what is not live gets a reference till it is freed.
pop_cycle ==
  /\ Popped
  /\ cycle_id[Top] = Top
  /\ LET cycle == <<Top>> \o piece[Top]
     IN /\ kill_list' = LiveObjects(cycle) \o kill_list
        /\ extra' = extra \cup {t \in Range(cycle) : t \in live_obj \/ t \notin live}
  /\ piece' = [piece EXCEPT ![Top] = <<>>]
  /\ UNCHANGED <<heap, pass, next, checked, live, link_top, rf_flags, cycle_id, dummy,
                 destructed>>

-----------------------------------------------------------------------------
(* The passes after it.                                                    *)

CycleChecked == pass = "cycle" /\ stack = <<>> /\ next > N

\* The free pass: gc_do_free() says which things go.
free ==
  /\ CycleChecked
  /\ pass' = "kill"
  /\ destructed' = Things \ live
  /\ extra' = extra \cap live
  /\ UNCHANGED <<heap, next, checked, live, frames, dummy, kill_list>>

\* The kill pass destructs the objects of the kill list.
kill ==
  /\ pass = "kill"
  /\ kill_list # <<>>
  /\ destructed' = destructed \cup {Head(kill_list)}
  /\ extra' = extra \ {Head(kill_list)}
  /\ kill_list' = Tail(kill_list)
  /\ UNCHANGED <<heap, pass, next, checked, live, frames, dummy>>

\* The gc is over.
done ==
  /\ pass = "kill"
  /\ kill_list = <<>>
  /\ UNCHANGED gc_vars

-----------------------------------------------------------------------------
(* The specification.                                                      *)

\* The pairs of things with a path of the references E from one to the other.
Paths(E) ==
  LET through[n \in 0..N] ==
        IF n = 0 THEN E
        ELSE LET less == through[n - 1]
             IN less \cup {p \in Things \X Things : <<p[1], n>> \in less /\ <<n, p[2]>> \in less}
  IN through[N]
OfStrength(S) == {p \in DOMAIN refs : refs[p] \in S}
AllPaths == Paths(DOMAIN refs)

\* A strong reference is that of an object to its parent object: it has one at
\* most, and is not among its own ancestors.
ParentsOK ==
  /\ \A p, q \in OfStrength({"strong"}) : p[1] = q[1] => p = q
  /\ \A t \in Things : <<t, t>> \notin Paths(OfStrength({"strong"}))

\* A thing has at most one reference to another thing, of one strength, and
\* none to itself; the code follows several references one by one.
Pairs == {p \in Things \X Things : p[1] # p[2]}

GcInit ==
  /\ \E E \in SUBSET Pairs : Cardinality(E) <= MaxRefs /\ refs \in [E -> Strengths]
  /\ ParentsOK
  /\ live_obj \in SUBSET Things
  /\ pass = "cycle"
  /\ next = 1
  /\ checked = {}
  /\ live = {}
  /\ extra = {}
  /\ stack = <<>>
  /\ link_top = [t \in Things |-> {}]
  /\ rf_flags = [t \in Things |-> {}]
  /\ cycle_id = [t \in Things |-> t]
  /\ piece = [t \in Things |-> <<>>]
  /\ mark_live = FALSE
  /\ mark_links = {}
  /\ kill_list = <<>>
  /\ destructed = {}

GcNext ==
  \/ gc_cycle_check_all \/ follow_link \/ follow_mark_link \/ pop_mark_live
  \/ pop_piece \/ pop_cycle \/ free \/ kill \/ done

GcSpec == GcInit /\ [][GcNext]_gc_vars

-----------------------------------------------------------------------------
(* Properties.                                                             *)

\* No thing is on the recursion stack twice, a cycle is continuous on it, and
\* its cycle identifier frame is the deepest one ("A cycle is always
\* continuous on the stack"): gc_cycle_pop() relies on it when it takes the
\* cycle to be complete.
CyclesContinuous ==
  /\ Cardinality(Range(stack)) = Len(stack)
  /\ \A i \in DOMAIN stack :
       /\ cycle_id[stack[i]] \in Range(stack)
       /\ Position(cycle_id[stack[i]]) <= i
       /\ \A j \in Position(cycle_id[stack[i]])..i : cycle_id[stack[j]] = cycle_id[stack[i]]

\* What live objects refer to, directly or not, and they themselves.
Reached == live_obj \cup {p[2] : p \in {q \in AllPaths : q[1] \in live_obj}}

\* When the cycle check pass is over, exactly what live objects refer to has
\* GC_LIVE and is kept, whatever the order in which it was visited; all else
\* has one extra reference, which the free pass takes; and every live object is
\* once on the kill list, with an extra reference too.
Verdict ==
  CycleChecked =>
    /\ live = Reached
    /\ Range(kill_list) = live_obj
    /\ Len(kill_list) = Cardinality(live_obj)
    /\ extra = live_obj \cup (Things \ live)

\* Weak references are no part of cycles.
WeakOneWay == \A p \in OfStrength({"weak"}) : <<p[2], p[1]>> \notin AllPaths

\* A live object is destructed before another one.
Before(a, b) == {a, b} \subseteq live_obj /\ b \in destructed => a \in destructed

\* An object is destructed before its parent ("This means the gc will never
\* destruct a parent object before all children have been destructed").
ChildrenFirst ==
  pass = "kill" => \A p \in OfStrength({"strong"}) : Before(p[1], p[2])

\* The order of destruction, as far as it can be relied on: without weak
\* references, an object is destructed before its parent; and without parents,
\* if weak references are no part of a cycle, an object that refers to another
\* single way, directly or not, is destructed before it.
DestructOrder ==
  /\ OfStrength({"weak"}) = {} => ChildrenFirst
  /\ pass = "kill" /\ OfStrength({"strong"}) = {} /\ WeakOneWay =>
       \A p \in AllPaths : <<p[2], p[1]>> \notin AllPaths => Before(p[1], p[2])

-----------------------------------------------------------------------------
(* The inductive invariant.                                                *)

GcTypes ==
  /\ DOMAIN refs \subseteq Pairs
  /\ \A p, q \in OfStrength({"strong"}) : p[1] = q[1] => p = q
  /\ live_obj \subseteq Things
  /\ pass \in {"cycle", "kill"}
  /\ next \in 1..N + 1
  /\ {checked, live, extra, mark_links} \subseteq SUBSET Things
  /\ stack \in Seq(Things)
  /\ link_top \in [Things -> SUBSET Things]
  /\ rf_flags \in [Things -> SUBSET {"WEAK", "STRONG", "BROKEN"}]
  /\ cycle_id \in [Things -> Things]
  /\ piece \in [Things -> Seq(Things)]
  /\ mark_live \in BOOLEAN
  /\ kill_list \in Seq(Things)

\* The frame at i belongs to a cycle that begins at k and has no gap till i.
CycleFrom(s, c, k, i) ==
  s[k] = c[s[i]] /\ \A j \in k..i : c[s[j]] = c[s[i]]

\* A stack s of different frames with the flags f and the cycles c: cycles are
\* continuous; a frame with a strong link to it has the cycle of the one before
\* it, unless a cycle begins there; and a cycle begins at every weak link.
OrderInv(s, f, c) ==
  /\ IsInjective(s)
  /\ \A i \in 1..Len(s) :
       /\ \E k \in 1..i : CycleFrom(s, c, k, i)
       /\ "WEAK" \in f[s[i]] => c[s[i]] = s[i]
       /\ "STRONG" \in f[s[i]] =>
            /\ i > 1
            /\ "WEAK" \notin f[s[i]]
            /\ "BROKEN" \notin f[s[i]]
            /\ c[s[i]] = c[s[i - 1]] \/ c[s[i - 1]] = s[i - 1]

\* Where the pass is: links are left in frames on the stack only, and a strong
\* link only in the one on top, before anything else has been followed there.
LinkInv ==
  /\ \A t \in Things : link_top[t] \subseteq Links(t)
  /\ \A t \in Things : link_top[t] # {} => t \in Range(stack)
  /\ \A t \in Range(stack), u \in Things :
       u \in link_top[t] /\ refs[<<t, u>>] = "strong" => t = Top /\ cycle_id[t] = t
  /\ mark_live => stack # <<>>
  /\ pass = "kill" => stack = <<>>

\* How far the marks are: what a visited thing refers to is visited, and if the
\* thing is live it is live, unless the link is still to be followed.
MarkInv ==
  /\ live \subseteq Reached
  /\ mark_links \subseteq Reached
  /\ mark_links # {} => mark_live
  /\ live_obj \cap checked \subseteq live
  /\ \A t \in checked : Links(t) \subseteq checked \cup link_top[t]
  /\ \A t \in checked \cap live : Links(t) \subseteq live \cup link_top[t] \cup mark_links
  /\ \A t \in Things : t < next => t \in checked

\* A visited thing is on the stack, on one cycle piece list, or gone.
PieceInv ==
  /\ Range(stack) \subseteq checked
  /\ \A t \in Things \ Range(stack) : piece[t] = <<>>
  /\ \A t \in Things :
       /\ IsInjective(piece[t])
       /\ Range(piece[t]) \subseteq checked \ Range(stack)
  /\ \A t, u \in Things : t # u => Range(piece[t]) \cap Range(piece[u]) = {}

Gone == {t \in checked : t \notin Range(stack) /\ ~OnPieceList(t)}

\* What has become of the things that are gone.
KillInv ==
  pass = "cycle" =>
    /\ IsInjective(kill_list)
    /\ Range(kill_list) = live_obj \cap Gone
    /\ extra = {t \in Gone : t \in live_obj \/ t \notin live}

GcInv ==
  /\ GcTypes
  /\ OrderInv(stack, rf_flags, cycle_id)
  /\ LinkInv
  /\ MarkInv
  /\ PieceInv
  /\ KillInv

=============================================================================
