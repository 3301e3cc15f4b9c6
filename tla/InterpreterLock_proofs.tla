----------------------- MODULE InterpreterLock_proofs -----------------------
(***************************************************************************)
(* Proofs about the interpreter lock, for every set of threads and every   *)
(* number of interleave mutexes: the inductive invariant IInv, and from it *)
(* TypeOK, OneSwappedIn and Halted.                                        *)
(*                                                                         *)
(* There is one lemma for each part of the invariant, with one step for    *)
(* each action.                                                            *)
(***************************************************************************)
EXTENDS InterpreterLock, FiniteSetTheorems, TLAPS

-----------------------------------------------------------------------------
(* What the helpers do.                                                    *)

\* The names of the places.
LEMMA PlaceNames ==
  /\ {"wanted", "locking", "sleep", "relock", "off"} \subseteq Places
  /\ {"allow", "allow_uid", "imutex", "interleave", "ims"} \subseteq Places
  /\ Holding \subseteq Places
  /\ {"run", "swap_in", "not_live", "compiler", "disable", "live", "create", "wait",
      "start"} \subseteq Holding \ {"leave"}
  /\ "leave" \in Holding
BY DEF Places, Locking, Holding, Section

\* A broadcast changes the place of sleeping threads only.
LEMMA WokenFacts ==
  ASSUME ControlInv, NEW conds
  PROVE  /\ Woken(conds) \in [Threads -> Places]
         /\ \A u \in Threads : \/ Woken(conds)[u] = pc[u]
                               \/ pc[u] = "sleep" /\ Woken(conds)[u] = "relock"
BY DEF Woken, ControlInv, Places, Locking

\* threads_disabled_wait() after a broadcast: the thread sleeps, without the
\* interpreter lock, or goes on with it.
LEMMA MayWaitFacts ==
  ASSUME ControlInv, NEW t \in Threads, NEW conds,
         MayWait(t, "swap_in", Woken(conds))
  PROVE  /\ \/ /\ threads_disabled > 0
               /\ interpreter_lock' = NoThread
               /\ pc'[t] = "sleep"
               /\ back' = [back EXCEPT ![t] = "swap_in"]
               /\ check' = [check EXCEPT ![t] = TRUE]
            \/ /\ threads_disabled = 0
               /\ interpreter_lock' = interpreter_lock
               /\ pc'[t] = "swap_in"
               /\ back' = back
               /\ check' = check
         /\ interpreter_lock_wanted' = interpreter_lock_wanted
         /\ \A u \in Threads \ {t} : \/ pc'[u] = pc[u]
                                     \/ pc[u] = "sleep" /\ pc'[u] = "relock"
<1>1. PICK pcs \in [Threads -> Places] :
        /\ pcs = Woken(conds)
        /\ \A u \in Threads : pcs[u] = pc[u] \/ (pc[u] = "sleep" /\ pcs[u] = "relock")
  BY WokenFacts
<1>2. MayWait(t, "swap_in", pcs)
  BY <1>1
<1>3. CASE threads_disabled > 0
  BY <1>1, <1>2, <1>3 DEF MayWait, Sleep, ControlInv, TypeOK
<1>4. CASE threads_disabled = 0
  BY <1>1, <1>2, <1>4 DEF MayWait, lockVars, waitVars
<1> QED  BY <1>2, <1>3, <1>4 DEF MayWait

\* It stays at a place that there is.
LEMMA MayWaitPlaces ==
  ASSUME ControlInv, NEW t \in Threads, NEW conds,
         MayWait(t, "swap_in", Woken(conds))
  PROVE  /\ pc' \in [Threads -> Places]
         /\ back' \in [Threads -> Holding \ {"leave"}]
         /\ check' \in [Threads -> BOOLEAN]
<1>1. PICK pcs \in [Threads -> Places] : pcs = Woken(conds)
  BY WokenFacts
<1>2. \/ pc' = [pcs EXCEPT ![t] = "sleep"]
      \/ pc' = [pcs EXCEPT ![t] = "swap_in"]
  BY <1>1 DEF MayWait, Sleep
<1>3. pc' \in [Threads -> Places]
  BY <1>1, <1>2, PlaceNames
<1>4. /\ back \in [Threads -> Holding \ {"leave"}]
      /\ check \in [Threads -> BOOLEAN]
  BY DEF ControlInv
<1>5. back' \in [Threads -> Holding \ {"leave"}]
  BY <1>4, MayWaitFacts, PlaceNames
<1>6. check' \in [Threads -> BOOLEAN]
  BY <1>4, MayWaitFacts
<1> QED  BY <1>3, <1>5, <1>6

\* It was not about to take a mutex, and is not.
LEMMA MayWaitNoMutex ==
  ASSUME ControlInv, NEW t \in Threads, NEW conds,
         MayWait(t, "swap_in", Woken(conds))
  PROVE  \A u \in Threads :
           /\ pc'[u] = "ims" => pc[u] = "ims"
           /\ pc'[u] = "imutex" => pc[u] = "imutex"
           /\ At(u, "disable")' => At(u, "disable")
<1>1. back \in [Threads -> Holding \ {"leave"}]
  BY DEF ControlInv
<1> QED  BY <1>1, MayWaitFacts DEF At

\* co_wait_interpreter(): the thread sleeps without the interpreter lock, and
\* remembers whether it has to wait for threads to be enabled.
LEMMA CoWaitFacts ==
  ASSUME ControlInv, NEW t \in Threads, NEW cond, NEW there,
         co_wait_interpreter(t, cond, there)
  PROVE  /\ interpreter_lock' = NoThread
         /\ interpreter_lock_wanted' = interpreter_lock_wanted
         /\ pc' = [pc EXCEPT ![t] = "sleep"]
         /\ back' = [back EXCEPT ![t] = there]
         /\ check' \in [Threads -> BOOLEAN]
         /\ check'[t] <=> threads_disabled = 0
         /\ \A u \in Threads \ {t} : check'[u] = check[u]
<1> DEFINE free == threads_disabled = 0
<1>1. /\ interpreter_lock' = NoThread
      /\ interpreter_lock_wanted' = interpreter_lock_wanted
      /\ pc' = [pc EXCEPT ![t] = "sleep"]
      /\ back' = [back EXCEPT ![t] = there]
      /\ check' = [check EXCEPT ![t] = free]
  BY DEF co_wait_interpreter, Sleep
<1>2. free \in BOOLEAN
  OBVIOUS
<1>3. check \in [Threads -> BOOLEAN]
  BY DEF ControlInv
<1> HIDE DEF free
<1>4. check' \in [Threads -> BOOLEAN] /\ (check'[t] <=> free)
  BY <1>1, <1>2, <1>3, Zenon
<1>5. \A u \in Threads \ {t} : check'[u] = check[u]
  BY <1>1, <1>3
<1> QED  BY <1>1, <1>4, <1>5 DEF free

\* When a thread gets the interpreter lock it is where it wanted to be, or
\* sleeps until threads are enabled.
LEMMA ResumeFacts ==
  ASSUME ControlInv, NEW t \in Threads, Resume(t),
         pc[t] \in {"locking", "relock"}
  PROVE  \A u \in Threads :
           /\ pc'[u] = "ims" => pc[u] = "ims"
           /\ pc'[u] = "imutex" => pc[u] = "imutex"
           /\ At(u, "disable")' => At(u, "disable")
           /\ At(u, "compiler")' => At(u, "compiler")
           /\ pc'[u] \in {"leave", "interleave"} <=> pc[u] \in {"leave", "interleave"}
BY DEF Resume, ControlInv, Places, Locking, Holding, At

-----------------------------------------------------------------------------
(* The steps.                                                                 *)

\* Every action keeps the interpreter lock and the swapped in state together.
LEMMA LockStep ==
  ASSUME IInv, NEW t \in Threads,
         Continue(t) \/ GiveBack(t) \/ Begin(t) \/ SpuriousWakeup(t)
  PROVE  LockInv'
<1> USE LockAssumption DEF IInv, ControlInv, TypeOK, LockInv, Places, Locking,
     Holding, Section, vars, lockVars, disableVars, nativeVars, compilerVars,
     threadVars, waitVars, othersOfLock
<1>1. CASE LockWanted(t)
  BY <1>1 DEF LockWanted, Goto
<1>2. CASE LockInterpreter(t)
  BY <1>2 DEF LockInterpreter, Resume
<1>3. CASE Relock(t)
  BY <1>3 DEF Relock, Resume
<1>4. CASE SpuriousWakeup(t)
  BY <1>4 DEF SpuriousWakeup, Goto
<1>5. CASE threads_allow(t)
  BY <1>5 DEF threads_allow, Allow, SwapOut, Goto
<1>6. CASE threads_disallow(t)
  BY <1>6 DEF threads_disallow, Disallow, Lock, Goto
<1>7. CASE swap_in(t)
  BY <1>7 DEF swap_in, SwapIn, Goto
<1>8. CASE threads_allow_ext(t)
  BY <1>8 DEF threads_allow_ext, Allow, SwapOut, Goto
<1>9. CASE threads_disallow_ext(t)
  BY <1>9 DEF threads_disallow_ext, Disallow, Lock, Goto
<1>10. CASE not_live(t)
  <2>1. \E conds : MayWait(t, "swap_in", Woken(conds))
    BY <1>10 DEF not_live
  <2> QED  BY <1>10, <2>1, MayWaitFacts DEF not_live
<1>11. CASE \E i \in IMs : lock_imutex(t, i)
  BY <1>11 DEF lock_imutex, Free, Allow, SwapOut, Goto
<1>12. CASE imutex(t)
  BY <1>12 DEF imutex, Disallow, Lock, Goto
<1>13. CASE unlock_imutex(t)
  BY <1>13 DEF unlock_imutex
<1>14. CASE compile(t)
  BY <1>14 DEF compile, Free, Goto
<1>15. CASE lock_pike_compiler(t)
  BY <1>15 DEF lock_pike_compiler, SwapOut, SwapIn, co_wait_interpreter, Sleep,
     Goto
<1>16. CASE unlock_pike_compiler(t)
  BY <1>16 DEF unlock_pike_compiler, Free, Woken
<1>17. CASE init_threads_disable(t)
  BY <1>17 DEF init_threads_disable, Free, Goto
<1>18. CASE leave(t)
  BY <1>18 DEF leave, Allow, SwapOut, Goto
<1>19. CASE interleave(t)
  BY <1>19 DEF interleave, Goto
<1>20. CASE lock_ims(t)
  BY <1>20 DEF lock_ims, Disallow, Lock, Goto
<1>21. CASE disable(t)
  BY <1>21 DEF disable, SwapIn, Goto
<1>22. CASE live(t)
  BY <1>22 DEF live, SwapOut, SwapIn, low_co_wait_interpreter, Sleep, Goto
<1>23. CASE exit_threads_disable(t)
  BY <1>23 DEF exit_threads_disable, Free, Woken
<1>24. CASE \E u \in Threads : create(t, u)
  BY <1>24 DEF create, Free, SwapOut
<1>25. CASE created(t)
  BY <1>25 DEF created, AwaitStatus, SwapOut, SwapIn, co_wait_interpreter,
     Sleep, Goto
<1>26. CASE start(t)
  <2>1. \E conds : MayWait(t, "swap_in", Woken(conds))
    BY <1>26 DEF start
  <2> QED  BY <1>26, <2>1, MayWaitFacts DEF start
<1>27. CASE exit(t)
  BY <1>27 DEF exit, Free, SwapOut, Woken
<1>28. CASE \E u \in Threads : wait(t, u)
  BY <1>28 DEF wait, Free, Goto
<1>29. CASE waited(t)
  BY <1>29 DEF waited, AwaitStatus, SwapOut, SwapIn, co_wait_interpreter, Sleep,
     Goto
<1> QED  BY <1>1, <1>2, <1>3, <1>4, <1>5, <1>6, <1>7, <1>8, <1>9, <1>10, <1>11,
     <1>12, <1>13, <1>14, <1>15, <1>16, <1>17, <1>18, <1>19, <1>20, <1>21,
     <1>22, <1>23, <1>24, <1>25, <1>26, <1>27, <1>28, <1>29
     DEF Continue, TakeMutex, GiveBack, Begin

\* The thread that has interleave_lock has threads disabled, or is about to.
LEMMA DisableStep ==
  ASSUME IInv, NEW t \in Threads,
         Continue(t) \/ GiveBack(t) \/ Begin(t) \/ SpuriousWakeup(t)
  PROVE  DisableInv'
<1> USE LockAssumption DEF IInv, ControlInv, TypeOK, LockInv, DisableInv,
     HaltInv, At, Places, Locking, Holding, Section, vars, lockVars,
     disableVars, nativeVars, compilerVars, threadVars, waitVars, othersOfLock
<1>1. CASE LockWanted(t)
  BY <1>1 DEF LockWanted, Goto
<1>2. CASE LockInterpreter(t)
  BY <1>2 DEF LockInterpreter, Resume
<1>3. CASE Relock(t)
  BY <1>3 DEF Relock, Resume
<1>4. CASE SpuriousWakeup(t)
  BY <1>4 DEF SpuriousWakeup, Goto
<1>5. CASE threads_allow(t)
  BY <1>5 DEF threads_allow, Allow, SwapOut, Goto
<1>6. CASE threads_disallow(t)
  BY <1>6 DEF threads_disallow, Disallow, Lock, Goto
<1>7. CASE swap_in(t)
  BY <1>7 DEF swap_in, SwapIn, Goto
<1>8. CASE threads_allow_ext(t)
  BY <1>8 DEF threads_allow_ext, Allow, SwapOut, Goto
<1>9. CASE threads_disallow_ext(t)
  BY <1>9 DEF threads_disallow_ext, Disallow, Lock, Goto
<1>10. CASE not_live(t)
  <2>1. \E conds : MayWait(t, "swap_in", Woken(conds))
    BY <1>10 DEF not_live
  <2> QED  BY <1>10, <2>1, MayWaitFacts DEF not_live
<1>11. CASE \E i \in IMs : lock_imutex(t, i)
  BY <1>11 DEF lock_imutex, Free, Allow, SwapOut, Goto
<1>12. CASE imutex(t)
  BY <1>12 DEF imutex, Disallow, Lock, Goto
<1>13. CASE unlock_imutex(t)
  BY <1>13 DEF unlock_imutex
<1>14. CASE compile(t)
  BY <1>14 DEF compile, Free, Goto
<1>15. CASE lock_pike_compiler(t)
  BY <1>15 DEF lock_pike_compiler, SwapOut, SwapIn, co_wait_interpreter, Sleep,
     Goto
<1>16. CASE unlock_pike_compiler(t)
  BY <1>16 DEF unlock_pike_compiler, Free, Woken
<1>17. CASE init_threads_disable(t)
  BY <1>17 DEF init_threads_disable, Free, Goto
<1>18. CASE leave(t)
  BY <1>18 DEF leave, Allow, SwapOut, Goto
<1>19. CASE interleave(t)
  BY <1>19 DEF interleave, Goto
<1>20. CASE lock_ims(t)
  BY <1>20 DEF lock_ims, Disallow, Lock, Goto
<1>21. CASE disable(t)
  BY <1>21 DEF disable, SwapIn, Goto
<1>22. CASE live(t)
  BY <1>22 DEF live, SwapOut, SwapIn, low_co_wait_interpreter, Sleep, Goto
<1>23. CASE exit_threads_disable(t)
  BY <1>23 DEF exit_threads_disable, Free, Woken
<1>24. CASE \E u \in Threads : create(t, u)
  BY <1>24 DEF create, Free, SwapOut
<1>25. CASE created(t)
  BY <1>25 DEF created, AwaitStatus, SwapOut, SwapIn, co_wait_interpreter,
     Sleep, Goto
<1>26. CASE start(t)
  <2>1. \E conds : MayWait(t, "swap_in", Woken(conds))
    BY <1>26 DEF start
  <2> QED  BY <1>26, <2>1, MayWaitFacts DEF start
<1>27. CASE exit(t)
  BY <1>27 DEF exit, Free, SwapOut, Woken
<1>28. CASE \E u \in Threads : wait(t, u)
  BY <1>28 DEF wait, Free, Goto
<1>29. CASE waited(t)
  BY <1>29 DEF waited, AwaitStatus, SwapOut, SwapIn, co_wait_interpreter, Sleep,
     Goto
<1> QED  BY <1>1, <1>2, <1>3, <1>4, <1>5, <1>6, <1>7, <1>8, <1>9, <1>10, <1>11,
     <1>12, <1>13, <1>14, <1>15, <1>16, <1>17, <1>18, <1>19, <1>20, <1>21,
     <1>22, <1>23, <1>24, <1>25, <1>26, <1>27, <1>28, <1>29
     DEF Continue, TakeMutex, GiveBack, Begin

\* It has every mutex of interleave_list, or takes one after the other.
LEMMA MutexStep ==
  ASSUME IInv, NEW t \in Threads,
         Continue(t) \/ GiveBack(t) \/ Begin(t) \/ SpuriousWakeup(t)
  PROVE  MutexInv'
<1> USE LockAssumption DEF IInv, ControlInv, TypeOK, LockInv, DisableInv,
     MutexInv, At, IMs, HasIM, Places, Locking, Holding, Section, vars,
     lockVars, disableVars, nativeVars, compilerVars, threadVars, waitVars,
     othersOfLock
<1>1. CASE LockWanted(t)
  BY <1>1 DEF LockWanted, Goto
<1>2. CASE LockInterpreter(t)
  <2>1. /\ im' = im /\ want' = want
        /\ interleave_lock' = interleave_lock /\ threads_disabled' = threads_disabled
    BY <1>2 DEF LockInterpreter
  <2>2. Resume(t)
    BY <1>2 DEF LockInterpreter
  <2> QED  BY <1>2, <2>1, <2>2, ResumeFacts DEF LockInterpreter
<1>3. CASE Relock(t)
  <2>1. /\ im' = im /\ want' = want
        /\ interleave_lock' = interleave_lock /\ threads_disabled' = threads_disabled
    BY <1>3 DEF Relock
  <2>2. Resume(t)
    BY <1>3 DEF Relock
  <2> QED  BY <1>3, <2>1, <2>2, ResumeFacts DEF Relock
<1>4. CASE SpuriousWakeup(t)
  BY <1>4 DEF SpuriousWakeup, Goto
<1>5. CASE threads_allow(t)
  BY <1>5 DEF threads_allow, Allow, SwapOut, Goto
<1>6. CASE threads_disallow(t)
  BY <1>6 DEF threads_disallow, Disallow, Lock, Goto
<1>7. CASE swap_in(t)
  BY <1>7 DEF swap_in, SwapIn, Goto
<1>8. CASE threads_allow_ext(t)
  BY <1>8 DEF threads_allow_ext, Allow, SwapOut, Goto
<1>9. CASE threads_disallow_ext(t)
  BY <1>9 DEF threads_disallow_ext, Disallow, Lock, Goto
<1>10. CASE not_live(t)
  <2>1. \E conds : MayWait(t, "swap_in", Woken(conds))
    BY <1>10 DEF not_live
  <2>2. \A u \in Threads : /\ pc'[u] = "ims" => pc[u] = "ims"
                           /\ pc'[u] = "imutex" => pc[u] = "imutex"
                           /\ At(u, "disable")' => At(u, "disable")
    BY <2>1, MayWaitNoMutex
  <2> QED  BY <1>10, <2>2 DEF not_live
<1>11. CASE \E i \in IMs : lock_imutex(t, i)
  BY <1>11 DEF lock_imutex, Free, Allow, SwapOut, Goto
<1>12. CASE imutex(t)
  BY <1>12 DEF imutex, Disallow, Lock, Goto
<1>13. CASE unlock_imutex(t)
  BY <1>13 DEF unlock_imutex
<1>14. CASE compile(t)
  BY <1>14 DEF compile, Free, Goto
<1>15. CASE lock_pike_compiler(t)
  BY <1>15 DEF lock_pike_compiler, SwapOut, SwapIn, co_wait_interpreter, Sleep,
     Goto
<1>16. CASE unlock_pike_compiler(t)
  BY <1>16 DEF unlock_pike_compiler, Free, Woken
<1>17. CASE init_threads_disable(t)
  BY <1>17 DEF init_threads_disable, Free, Goto
<1>18. CASE leave(t)
  BY <1>18 DEF leave, Allow, SwapOut, Goto
<1>19. CASE interleave(t)
  BY <1>19 DEF interleave, Goto
<1>20. CASE lock_ims(t)
  BY <1>20 DEF lock_ims, Disallow, Lock, Goto
<1>21. CASE disable(t)
  BY <1>21 DEF disable, SwapIn, Goto
<1>22. CASE live(t)
  BY <1>22 DEF live, SwapOut, SwapIn, low_co_wait_interpreter, Sleep, Goto
<1>23. CASE exit_threads_disable(t)
  BY <1>23 DEF exit_threads_disable, Free, Woken
<1>24. CASE \E u \in Threads : create(t, u)
  BY <1>24 DEF create, Free, SwapOut
<1>25. CASE created(t)
  BY <1>25 DEF created, AwaitStatus, SwapOut, SwapIn, co_wait_interpreter,
     Sleep, Goto
<1>26. CASE start(t)
  <2>1. \E conds : MayWait(t, "swap_in", Woken(conds))
    BY <1>26 DEF start
  <2>2. \A u \in Threads : /\ pc'[u] = "ims" => pc[u] = "ims"
                           /\ pc'[u] = "imutex" => pc[u] = "imutex"
                           /\ At(u, "disable")' => At(u, "disable")
    BY <2>1, MayWaitNoMutex
  <2> QED  BY <1>26, <2>2 DEF start
<1>27. CASE exit(t)
  BY <1>27 DEF exit, Free, SwapOut, Woken
<1>28. CASE \E u \in Threads : wait(t, u)
  BY <1>28 DEF wait, Free, Goto
<1>29. CASE waited(t)
  BY <1>29 DEF waited, AwaitStatus, SwapOut, SwapIn, co_wait_interpreter, Sleep,
     Goto
<1> QED  BY <1>1, <1>2, <1>3, <1>4, <1>5, <1>6, <1>7, <1>8, <1>9, <1>10, <1>11,
     <1>12, <1>13, <1>14, <1>15, <1>16, <1>17, <1>18, <1>19, <1>20, <1>21,
     <1>22, <1>23, <1>24, <1>25, <1>26, <1>27, <1>28, <1>29
     DEF Continue, TakeMutex, GiveBack, Begin

\* The other threads are outside, or on their way to wait.
LEMMA HaltStep ==
  ASSUME IInv, NEW t \in Threads,
         Continue(t) \/ GiveBack(t) \/ Begin(t) \/ SpuriousWakeup(t)
  PROVE  HaltInv'
<1> USE LockAssumption DEF IInv, ControlInv, TypeOK, LockInv, DisableInv,
     HaltInv, At, Places, Locking, Holding, Section, vars, lockVars,
     disableVars, nativeVars, compilerVars, threadVars, waitVars, othersOfLock
<1>1. CASE LockWanted(t)
  BY <1>1 DEF LockWanted, Goto
<1>2. CASE LockInterpreter(t)
  BY <1>2 DEF LockInterpreter, Resume
<1>3. CASE Relock(t)
  BY <1>3 DEF Relock, Resume
<1>4. CASE SpuriousWakeup(t)
  BY <1>4 DEF SpuriousWakeup, Goto
<1>5. CASE threads_allow(t)
  BY <1>5 DEF threads_allow, Allow, SwapOut, Goto
<1>6. CASE threads_disallow(t)
  BY <1>6 DEF threads_disallow, Disallow, Lock, Goto
<1>7. CASE swap_in(t)
  BY <1>7 DEF swap_in, SwapIn, Goto
<1>8. CASE threads_allow_ext(t)
  BY <1>8 DEF threads_allow_ext, Allow, SwapOut, Goto
<1>9. CASE threads_disallow_ext(t)
  BY <1>9 DEF threads_disallow_ext, Disallow, Lock, Goto
<1>10. CASE not_live(t)
  <2>1. \E conds : MayWait(t, "swap_in", Woken(conds))
    BY <1>10 DEF not_live
  <2> QED  BY <1>10, <2>1, MayWaitFacts DEF not_live
<1>11. CASE \E i \in IMs : lock_imutex(t, i)
  BY <1>11 DEF lock_imutex, Free, Allow, SwapOut, Goto
<1>12. CASE imutex(t)
  BY <1>12 DEF imutex, Disallow, Lock, Goto
<1>13. CASE unlock_imutex(t)
  BY <1>13 DEF unlock_imutex
<1>14. CASE compile(t)
  BY <1>14 DEF compile, Free, Goto
<1>15. CASE lock_pike_compiler(t)
  <2>1. CASE CompilerTaken(t)
    <3>1. \E cond, there : co_wait_interpreter(t, cond, there)
      BY <1>15, <2>1 DEF lock_pike_compiler
    <3> QED  BY <1>15, <2>1, <3>1, CoWaitFacts DEF lock_pike_compiler, SwapOut
  <2>2. CASE ~(CompilerTaken(t))
    BY <1>15, <2>2 DEF lock_pike_compiler, SwapIn, Goto
  <2> QED  BY <2>1, <2>2
<1>16. CASE unlock_pike_compiler(t)
  BY <1>16 DEF unlock_pike_compiler, Free, Woken
<1>17. CASE init_threads_disable(t)
  BY <1>17 DEF init_threads_disable, Free, Goto
<1>18. CASE leave(t)
  BY <1>18 DEF leave, Allow, SwapOut, Goto
<1>19. CASE interleave(t)
  BY <1>19 DEF interleave, Goto
<1>20. CASE lock_ims(t)
  BY <1>20 DEF lock_ims, Disallow, Lock, Goto
<1>21. CASE disable(t)
  BY <1>21 DEF disable, SwapIn, Goto
<1>22. CASE live(t)
  BY <1>22 DEF live, SwapOut, SwapIn, low_co_wait_interpreter, Sleep, Goto
<1>23. CASE exit_threads_disable(t)
  BY <1>23 DEF exit_threads_disable, Free, Woken
<1>24. CASE \E u \in Threads : create(t, u)
  BY <1>24 DEF create, Free, SwapOut
<1>25. CASE created(t)
  <2>1. CASE status[child[t]] \in {"NOT_STARTED"}
    <3>1. \E cond, there : co_wait_interpreter(t, cond, there)
      BY <1>25, <2>1 DEF created, AwaitStatus
    <3> QED  BY <1>25, <2>1, <3>1, CoWaitFacts DEF created, AwaitStatus, SwapOut
  <2>2. CASE ~(status[child[t]] \in {"NOT_STARTED"})
    BY <1>25, <2>2 DEF created, AwaitStatus, SwapIn, Goto
  <2> QED  BY <2>1, <2>2
<1>26. CASE start(t)
  <2>1. \E conds : MayWait(t, "swap_in", Woken(conds))
    BY <1>26 DEF start
  <2> QED  BY <1>26, <2>1, MayWaitFacts DEF start
<1>27. CASE exit(t)
  BY <1>27 DEF exit, Free, SwapOut, Woken
<1>28. CASE \E u \in Threads : wait(t, u)
  BY <1>28 DEF wait, Free, Goto
<1>29. CASE waited(t)
  <2>1. CASE status[child[t]] \in {"NOT_STARTED", "RUNNING"}
    <3>1. \E cond, there : co_wait_interpreter(t, cond, there)
      BY <1>29, <2>1 DEF waited, AwaitStatus
    <3> QED  BY <1>29, <2>1, <3>1, CoWaitFacts DEF waited, AwaitStatus, SwapOut
  <2>2. CASE ~(status[child[t]] \in {"NOT_STARTED", "RUNNING"})
    BY <1>29, <2>2 DEF waited, AwaitStatus, SwapIn, Goto
  <2> QED  BY <2>1, <2>2
<1> QED  BY <1>1, <1>2, <1>3, <1>4, <1>5, <1>6, <1>7, <1>8, <1>9, <1>10, <1>11,
     <1>12, <1>13, <1>14, <1>15, <1>16, <1>17, <1>18, <1>19, <1>20, <1>21,
     <1>22, <1>23, <1>24, <1>25, <1>26, <1>27, <1>28, <1>29
     DEF Continue, TakeMutex, GiveBack, Begin

\* The counted sets are finite.
LEMMA CountedFinite ==
  IsFiniteSet(Live) /\ IsFiniteSet(Started)
BY LockAssumption, FS_Subset DEF Live, Started

\* live_threads and num_threads count the threads in sections of
\* THREADS_ALLOW_UID() and the threads there are.
LEMMA CountStep ==
  ASSUME IInv, NEW t \in Threads,
         Continue(t) \/ GiveBack(t) \/ Begin(t) \/ SpuriousWakeup(t)
  PROVE  CountInv'
<1> USE LockAssumption DEF IInv, ControlInv, TypeOK, LockInv, DisableInv,
     HaltInv, At, Places, Locking, Holding, Section, vars, lockVars,
     disableVars, nativeVars, compilerVars, threadVars, waitVars, othersOfLock
<1>1. CASE LockWanted(t)
  <2>1. Live' = Live
    BY <1>1 DEF Live, LockWanted, Goto
  <2>2. Started' = Started
    BY <1>1 DEF Started, LockWanted, Goto
  <2> QED  BY <1>1, <2>1, <2>2 DEF CountInv, LockWanted, Goto
<1>2. CASE LockInterpreter(t)
  <2>1. Live' = Live
    BY <1>2 DEF Live, LockInterpreter, Resume
  <2>2. Started' = Started
    BY <1>2 DEF Started, LockInterpreter, Resume
  <2> QED  BY <1>2, <2>1, <2>2 DEF CountInv, LockInterpreter, Resume
<1>3. CASE Relock(t)
  <2>1. Live' = Live
    BY <1>3 DEF Live, Relock, Resume
  <2>2. Started' = Started
    BY <1>3 DEF Started, Relock, Resume
  <2> QED  BY <1>3, <2>1, <2>2 DEF CountInv, Relock, Resume
<1>4. CASE SpuriousWakeup(t)
  <2>1. Live' = Live
    BY <1>4 DEF Live, SpuriousWakeup, Goto
  <2>2. Started' = Started
    BY <1>4 DEF Started, SpuriousWakeup, Goto
  <2> QED  BY <1>4, <2>1, <2>2 DEF CountInv, SpuriousWakeup, Goto
<1>5. CASE threads_allow(t)
  <2>1. Live' = Live
    BY <1>5 DEF Live, threads_allow, Allow, SwapOut, Goto
  <2>2. Started' = Started
    BY <1>5 DEF Started, threads_allow, Allow, SwapOut, Goto
  <2> QED  BY <1>5, <2>1, <2>2 DEF CountInv, threads_allow, Allow, SwapOut, Goto
<1>6. CASE threads_disallow(t)
  <2>1. Live' = Live
    BY <1>6 DEF Live, threads_disallow, Disallow, Lock, Goto
  <2>2. Started' = Started
    BY <1>6 DEF Started, threads_disallow, Disallow, Lock, Goto
  <2> QED  BY <1>6, <2>1, <2>2 DEF CountInv, threads_disallow, Disallow, Lock, Goto
<1>7. CASE swap_in(t)
  <2>1. Live' = Live
    BY <1>7 DEF Live, swap_in, SwapIn, Goto
  <2>2. Started' = Started
    BY <1>7 DEF Started, swap_in, SwapIn, Goto
  <2> QED  BY <1>7, <2>1, <2>2 DEF CountInv, swap_in, SwapIn, Goto
<1>8. CASE threads_allow_ext(t)
  <2>1. Started' = Started
    BY <1>8 DEF Started, threads_allow_ext, Allow, SwapOut, Goto
  <2>2. CASE num_threads > 1 /\ threads_disabled = 0
    <3>1. Live' = Live \cup {t} /\ t \notin Live
      BY <1>8, <2>2 DEF Live, threads_allow_ext, Allow, SwapOut, Goto
    <3>2. Cardinality(Live') = Cardinality(Live) + 1
      BY <3>1, CountedFinite, FS_AddElement
    <3> QED  BY <1>8, <2>1, <2>2, <3>2 DEF CountInv, threads_allow_ext, Allow, Goto
  <2>3. CASE ~(num_threads > 1 /\ threads_disabled = 0)
    <3>1. Live' = Live
      BY <1>8, <2>3 DEF Live, threads_allow_ext, Allow, Goto
    <3> QED  BY <1>8, <2>1, <2>3, <3>1 DEF CountInv, threads_allow_ext, Allow, Goto
  <2> QED  BY <2>2, <2>3
<1>9. CASE threads_disallow_ext(t)
  <2>1. Live' = Live
    BY <1>9 DEF Live, threads_disallow_ext, Disallow, Lock, Goto
  <2>2. Started' = Started
    BY <1>9 DEF Started, threads_disallow_ext, Disallow, Lock, Goto
  <2> QED  BY <1>9, <2>1, <2>2 DEF CountInv, threads_disallow_ext, Disallow, Lock,
       Goto
<1>10. CASE not_live(t)
  <2>1. \E conds : MayWait(t, "swap_in", Woken(conds))
    BY <1>10 DEF not_live
  <2>2. Started' = Started
    BY <1>10, <2>1, MayWaitFacts DEF Started, not_live
  <2>3. Live' = Live \ {t} /\ t \in Live
    BY <1>10, <2>1, MayWaitFacts DEF Live, not_live
  <2>4. Cardinality(Live') = Cardinality(Live) - 1
    BY <2>3, CountedFinite, FS_RemoveElement
  <2>5. \A u \in Threads : ~At(u, "live")' => ~At(u, "live")
    BY <1>10, <2>1, MayWaitFacts DEF not_live
  <2> QED  BY <1>10, <2>2, <2>3, <2>4, <2>5 DEF CountInv, not_live
<1>11. CASE \E i \in IMs : lock_imutex(t, i)
  <2>1. Live' = Live
    BY <1>11 DEF Live, lock_imutex, Free, Allow, SwapOut, Goto
  <2>2. Started' = Started
    BY <1>11 DEF Started, lock_imutex, Free, Allow, SwapOut, Goto
  <2> QED  BY <1>11, <2>1, <2>2 DEF CountInv, lock_imutex, Free, Allow, SwapOut,
       Goto
<1>12. CASE imutex(t)
  <2>1. Live' = Live
    BY <1>12 DEF Live, imutex, Disallow, Lock, Goto
  <2>2. Started' = Started
    BY <1>12 DEF Started, imutex, Disallow, Lock, Goto
  <2> QED  BY <1>12, <2>1, <2>2 DEF CountInv, imutex, Disallow, Lock, Goto
<1>13. CASE unlock_imutex(t)
  <2>1. Live' = Live
    BY <1>13 DEF Live, unlock_imutex
  <2>2. Started' = Started
    BY <1>13 DEF Started, unlock_imutex
  <2> QED  BY <1>13, <2>1, <2>2 DEF CountInv, unlock_imutex
<1>14. CASE compile(t)
  <2>1. Live' = Live
    BY <1>14 DEF Live, compile, Free, Goto
  <2>2. Started' = Started
    BY <1>14 DEF Started, compile, Free, Goto
  <2> QED  BY <1>14, <2>1, <2>2 DEF CountInv, compile, Free, Goto
<1>15. CASE lock_pike_compiler(t)
  <2>1. Live' = Live
    BY <1>15 DEF Live, lock_pike_compiler, SwapOut, SwapIn, co_wait_interpreter,
       Sleep, Goto
  <2>2. Started' = Started
    BY <1>15 DEF Started, lock_pike_compiler, SwapOut, SwapIn, co_wait_interpreter,
       Sleep, Goto
  <2> QED  BY <1>15, <2>1, <2>2 DEF CountInv, lock_pike_compiler, SwapOut, SwapIn,
       co_wait_interpreter, Sleep, Goto
<1>16. CASE unlock_pike_compiler(t)
  <2>1. Live' = Live
    BY <1>16 DEF Live, unlock_pike_compiler, Free, Woken
  <2>2. Started' = Started
    BY <1>16 DEF Started, unlock_pike_compiler, Free, Woken
  <2> QED  BY <1>16, <2>1, <2>2 DEF CountInv, unlock_pike_compiler, Free, Woken
<1>17. CASE init_threads_disable(t)
  <2>1. Live' = Live
    BY <1>17 DEF Live, init_threads_disable, Free, Goto
  <2>2. Started' = Started
    BY <1>17 DEF Started, init_threads_disable, Free, Goto
  <2> QED  BY <1>17, <2>1, <2>2 DEF CountInv, init_threads_disable, Free, Goto
<1>18. CASE leave(t)
  <2>1. Live' = Live
    BY <1>18 DEF Live, leave, Allow, SwapOut, Goto
  <2>2. Started' = Started
    BY <1>18 DEF Started, leave, Allow, SwapOut, Goto
  <2> QED  BY <1>18, <2>1, <2>2 DEF CountInv, leave, Allow, SwapOut, Goto
<1>19. CASE interleave(t)
  <2>1. Live' = Live
    BY <1>19 DEF Live, interleave, Goto
  <2>2. Started' = Started
    BY <1>19 DEF Started, interleave, Goto
  <2> QED  BY <1>19, <2>1, <2>2 DEF CountInv, interleave, Goto
<1>20. CASE lock_ims(t)
  <2>1. Live' = Live
    BY <1>20 DEF Live, lock_ims, Disallow, Lock, Goto
  <2>2. Started' = Started
    BY <1>20 DEF Started, lock_ims, Disallow, Lock, Goto
  <2> QED  BY <1>20, <2>1, <2>2 DEF CountInv, lock_ims, Disallow, Lock, Goto
<1>21. CASE disable(t)
  <2>1. Live' = Live
    BY <1>21 DEF Live, disable, SwapIn, Goto
  <2>2. Started' = Started
    BY <1>21 DEF Started, disable, SwapIn, Goto
  <2> QED  BY <1>21, <2>1, <2>2 DEF CountInv, disable, SwapIn, Goto
<1>22. CASE live(t)
  <2>1. Live' = Live
    BY <1>22 DEF Live, live, SwapOut, SwapIn, low_co_wait_interpreter, Sleep, Goto
  <2>2. Started' = Started
    BY <1>22 DEF Started, live, SwapOut, SwapIn, low_co_wait_interpreter, Sleep, Goto
  <2>3. live_threads = 0 => Live = {}
    BY CountedFinite, FS_EmptySet DEF CountInv
  <2>4. \A u \in Threads : At(u, "live") /\ ~At(u, "live")' => live_threads = 0
    BY <1>22 DEF live, SwapOut, SwapIn, low_co_wait_interpreter, Sleep, Goto
  <2> QED  BY <1>22, <2>1, <2>2, <2>3, <2>4 DEF CountInv, live
<1>23. CASE exit_threads_disable(t)
  <2>1. Live' = Live
    BY <1>23 DEF Live, exit_threads_disable, Free, Woken
  <2>2. Started' = Started
    BY <1>23 DEF Started, exit_threads_disable, Free, Woken
  <2> QED  BY <1>23, <2>1, <2>2 DEF CountInv, exit_threads_disable, Free, Woken
<1>24. CASE \E u \in Threads : create(t, u)
  <2>1. PICK u \in Threads : create(t, u)
    BY <1>24
  <2>2. Live' = Live
    BY <2>1 DEF Live, create, Free, SwapOut
  <2>3. Started' = Started \cup {u} /\ u \notin Started
    BY <2>1 DEF Started, create, Free
  <2>4. Cardinality(Started') = Cardinality(Started) + 1
    BY <2>3, CountedFinite, FS_AddElement
  <2> QED  BY <2>1, <2>2, <2>4 DEF CountInv, create, Free
<1>25. CASE created(t)
  <2>1. Live' = Live
    BY <1>25 DEF Live, created, AwaitStatus, SwapOut, SwapIn, co_wait_interpreter,
       Sleep, Goto
  <2>2. Started' = Started
    BY <1>25 DEF Started, created, AwaitStatus, SwapOut, SwapIn,
       co_wait_interpreter, Sleep, Goto
  <2> QED  BY <1>25, <2>1, <2>2 DEF CountInv, created, AwaitStatus, SwapOut, SwapIn,
       co_wait_interpreter, Sleep, Goto
<1>26. CASE start(t)
  <2>0. \E conds : MayWait(t, "swap_in", Woken(conds))
    BY <1>26 DEF start
  <2>1. Live' = Live
    BY <1>26, <2>0, MayWaitFacts DEF Live, start
  <2>2. Started' = Started
    BY <1>26, <2>0, MayWaitFacts DEF Started, start
  <2> QED  BY <1>26, <2>1, <2>2, <2>0, MayWaitFacts DEF CountInv, start
<1>27. CASE exit(t)
  <2>1. Live' = Live
    BY <1>27 DEF Live, exit, Free, SwapOut, Woken
  <2>2. Started' = Started \ {t} /\ t \in Started
    BY <1>27 DEF Started, exit, Free, Woken
  <2>3. Cardinality(Started') = Cardinality(Started) - 1
    BY <2>2, CountedFinite, FS_RemoveElement
  <2> QED  BY <1>27, <2>1, <2>3 DEF CountInv, exit, Free, Woken
<1>28. CASE \E u \in Threads : wait(t, u)
  <2>1. Live' = Live
    BY <1>28 DEF Live, wait, Free, Goto
  <2>2. Started' = Started
    BY <1>28 DEF Started, wait, Free, Goto
  <2> QED  BY <1>28, <2>1, <2>2 DEF CountInv, wait, Free, Goto
<1>29. CASE waited(t)
  <2>1. Live' = Live
    BY <1>29 DEF Live, waited, AwaitStatus, SwapOut, SwapIn, co_wait_interpreter,
       Sleep, Goto
  <2>2. Started' = Started
    BY <1>29 DEF Started, waited, AwaitStatus, SwapOut, SwapIn, co_wait_interpreter,
       Sleep, Goto
  <2> QED  BY <1>29, <2>1, <2>2 DEF CountInv, waited, AwaitStatus, SwapOut, SwapIn,
       co_wait_interpreter, Sleep, Goto
<1> QED  BY <1>1, <1>2, <1>3, <1>4, <1>5, <1>6, <1>7, <1>8, <1>9, <1>10, <1>11,
     <1>12, <1>13, <1>14, <1>15, <1>16, <1>17, <1>18, <1>19, <1>20, <1>21,
     <1>22, <1>23, <1>24, <1>25, <1>26, <1>27, <1>28, <1>29
     DEF Continue, TakeMutex, GiveBack, Begin

\* The compiler lock is taken once by a compilation and once by
\* _disable_threads(), and by one thread only.
LEMMA CompilerStep ==
  ASSUME IInv, NEW t \in Threads,
         Continue(t) \/ GiveBack(t) \/ Begin(t) \/ SpuriousWakeup(t)
  PROVE  CompilerInv'
<1> USE LockAssumption DEF IInv, ControlInv, TypeOK, LockInv, DisableInv,
     HaltInv, At, CompilerInv, Holds, Depth, CompilerTaken, Places, Locking,
     Holding, Section, vars, lockVars, disableVars, nativeVars, compilerVars,
     threadVars, waitVars, othersOfLock
<1>1. CASE LockWanted(t)
  BY <1>1 DEF LockWanted, Goto
<1>2. CASE LockInterpreter(t)
  <2>1. Resume(t)
    BY <1>2 DEF LockInterpreter
  <2>2. \A u \in Threads : Holds(u)' <=> Holds(u)
    BY <1>2, <2>1, ResumeFacts DEF LockInterpreter
  <2>3. \A u \in Threads : At(u, "compiler")' => At(u, "compiler")
    BY <1>2, <2>1, ResumeFacts DEF LockInterpreter
  <2> QED  BY <1>2, <2>2, <2>3 DEF LockInterpreter
<1>3. CASE Relock(t)
  <2>1. Resume(t)
    BY <1>3 DEF Relock
  <2>2. \A u \in Threads : Holds(u)' <=> Holds(u)
    BY <1>3, <2>1, ResumeFacts DEF Relock
  <2>3. \A u \in Threads : At(u, "compiler")' => At(u, "compiler")
    BY <1>3, <2>1, ResumeFacts DEF Relock
  <2> QED  BY <1>3, <2>2, <2>3 DEF Relock
<1>4. CASE SpuriousWakeup(t)
  BY <1>4 DEF SpuriousWakeup, Goto
<1>5. CASE threads_allow(t)
  BY <1>5 DEF threads_allow, Allow, SwapOut, Goto
<1>6. CASE threads_disallow(t)
  BY <1>6 DEF threads_disallow, Disallow, Lock, Goto
<1>7. CASE swap_in(t)
  BY <1>7 DEF swap_in, SwapIn, Goto
<1>8. CASE threads_allow_ext(t)
  BY <1>8 DEF threads_allow_ext, Allow, SwapOut, Goto
<1>9. CASE threads_disallow_ext(t)
  BY <1>9 DEF threads_disallow_ext, Disallow, Lock, Goto
<1>10. CASE not_live(t)
  <2>1. \E conds : MayWait(t, "swap_in", Woken(conds))
    BY <1>10 DEF not_live
  <2> QED  BY <1>10, <2>1, MayWaitFacts DEF not_live
<1>11. CASE \E i \in IMs : lock_imutex(t, i)
  BY <1>11 DEF lock_imutex, Free, Allow, SwapOut, Goto
<1>12. CASE imutex(t)
  BY <1>12 DEF imutex, Disallow, Lock, Goto
<1>13. CASE unlock_imutex(t)
  BY <1>13 DEF unlock_imutex
<1>14. CASE compile(t)
  BY <1>14 DEF compile, Free, Goto
<1>15. CASE lock_pike_compiler(t)
  <2>1. CASE CompilerTaken(t)
    <3>1. \E cond : co_wait_interpreter(t, cond, "compiler")
      BY <1>15, <2>1 DEF lock_pike_compiler
    <3> QED  BY <1>15, <2>1, <3>1, CoWaitFacts DEF lock_pike_compiler, SwapOut
  <2>2. CASE ~CompilerTaken(t)
    <3>1. /\ lock_depth' = lock_depth + 1
          /\ Pike_compiler_thread' = t
          /\ interleave_lock' = interleave_lock
          /\ back' = back
      BY <1>15, <2>2 DEF lock_pike_compiler, Goto
    <3>2. lock_depth = Depth(t) /\ \A u \in Threads \ {t} : Depth(u) = 0
      BY <2>2
    <3>3. CASE job[t] = "compile"
      <4>1. /\ pc' = [pc EXCEPT ![t] = "run"]
            /\ compiles' = [compiles EXCEPT ![t] = TRUE]
            /\ job' = [job EXCEPT ![t] = "none"]
        BY <1>15, <2>2, <3>3 DEF lock_pike_compiler, Goto
      <4> QED  BY <1>15, <3>1, <3>2, <3>3, <4>1 DEF lock_pike_compiler
    <3>4. CASE job[t] = "disable"
      <4>1. /\ pc' = [pc EXCEPT ![t] = "leave"]
            /\ compiles' = compiles
            /\ job' = [job EXCEPT ![t] = "none"]
        BY <1>15, <2>2, <3>4 DEF lock_pike_compiler, Goto
      <4> QED  BY <1>15, <3>1, <3>2, <3>4, <4>1 DEF lock_pike_compiler
    <3> QED  BY <1>15, <3>3, <3>4 DEF lock_pike_compiler
  <2> QED  BY <2>1, <2>2
<1>16. CASE unlock_pike_compiler(t)
  BY <1>16 DEF unlock_pike_compiler, Free, Woken
<1>17. CASE init_threads_disable(t)
  BY <1>17 DEF init_threads_disable, Free, Goto
<1>18. CASE leave(t)
  BY <1>18 DEF leave, Allow, SwapOut, Goto
<1>19. CASE interleave(t)
  BY <1>19 DEF interleave, Goto
<1>20. CASE lock_ims(t)
  BY <1>20 DEF lock_ims, Disallow, Lock, Goto
<1>21. CASE disable(t)
  BY <1>21 DEF disable, SwapIn, Goto
<1>22. CASE live(t)
  BY <1>22 DEF live, SwapOut, SwapIn, low_co_wait_interpreter, Sleep, Goto
<1>23. CASE exit_threads_disable(t)
  BY <1>23 DEF exit_threads_disable, Free, Woken
<1>24. CASE \E u \in Threads : create(t, u)
  BY <1>24 DEF create, Free, SwapOut
<1>25. CASE created(t)
  BY <1>25 DEF created, AwaitStatus, SwapOut, SwapIn, co_wait_interpreter,
     Sleep, Goto
<1>26. CASE start(t)
  <2>1. \E conds : MayWait(t, "swap_in", Woken(conds))
    BY <1>26 DEF start
  <2> QED  BY <1>26, <2>1, MayWaitFacts DEF start
<1>27. CASE exit(t)
  BY <1>27 DEF exit, Free, SwapOut, Woken
<1>28. CASE \E u \in Threads : wait(t, u)
  BY <1>28 DEF wait, Free, Goto
<1>29. CASE waited(t)
  BY <1>29 DEF waited, AwaitStatus, SwapOut, SwapIn, co_wait_interpreter, Sleep,
     Goto
<1> QED  BY <1>1, <1>2, <1>3, <1>4, <1>5, <1>6, <1>7, <1>8, <1>9, <1>10, <1>11,
     <1>12, <1>13, <1>14, <1>15, <1>16, <1>17, <1>18, <1>19, <1>20, <1>21,
     <1>22, <1>23, <1>24, <1>25, <1>26, <1>27, <1>28, <1>29
     DEF Continue, TakeMutex, GiveBack, Begin

\* A thread that gets the interpreter lock is at a place that there is.
LEMMA ResumePlaces ==
  ASSUME ControlInv, NEW t \in Threads, Resume(t)
  PROVE  /\ pc' \in [Threads -> Places]
         /\ back' \in [Threads -> Holding \ {"leave"}]
         /\ check' \in [Threads -> BOOLEAN]
<1>1. /\ pc \in [Threads -> Places]
      /\ back \in [Threads -> Holding \ {"leave"}]
      /\ check \in [Threads -> BOOLEAN]
  BY DEF ControlInv
<1>2. CASE pc' = [pc EXCEPT ![t] = "sleep"] /\ back' = back /\ check' = check
  BY <1>1, <1>2, PlaceNames
<1>3. CASE /\ pc' = [pc EXCEPT ![t] = back[t]]
           /\ back' = [back EXCEPT ![t] = "run"]
           /\ check' = [check EXCEPT ![t] = FALSE]
  <2>1. back[t] \in Places
    BY <1>1, PlaceNames
  <2>2. pc' \in [Threads -> Places]
    BY <1>1, <1>3, <2>1
  <2>3. back' \in [Threads -> Holding \ {"leave"}]
    BY <1>1, <1>3, PlaceNames
  <2>4. check' \in [Threads -> BOOLEAN]
    BY <1>1, <1>3
  <2> QED  BY <2>2, <2>3, <2>4
<1> QED  BY <1>2, <1>3 DEF Resume

\* So is one that asks for it, or finds that it never gave it up.
LEMMA DisallowPlaces ==
  ASSUME ControlInv, NEW t \in Threads, NEW mayWait \in BOOLEAN,
         NEW there \in Holding \ {"leave"}, NEW unswapped \in Holding,
         Disallow(t, mayWait, there, unswapped)
  PROVE  /\ pc' \in [Threads -> Places]
         /\ back' \in [Threads -> Holding \ {"leave"}]
         /\ check' \in [Threads -> BOOLEAN]
<1>1. /\ pc \in [Threads -> Places]
      /\ back \in [Threads -> Holding \ {"leave"}]
      /\ check \in [Threads -> BOOLEAN]
  BY DEF ControlInv
<1>2. CASE Lock(t, mayWait, there)
  <2>1. pc' \in [Threads -> Places]
    BY <1>1, <1>2, PlaceNames DEF Lock
  <2>2. back' \in [Threads -> Holding \ {"leave"}]
    BY <1>1, <1>2 DEF Lock
  <2>3. check' \in [Threads -> BOOLEAN]
    BY <1>1, <1>2 DEF Lock
  <2> QED  BY <2>1, <2>2, <2>3
<1>3. CASE Goto(t, unswapped)
  BY <1>1, <1>3, PlaceNames DEF Goto, waitVars
<1> QED  BY <1>2, <1>3 DEF Disallow

\* Every thread is at a place, and goes on at one.
LEMMA PlaceStep ==
  ASSUME IInv, NEW t \in Threads,
         Continue(t) \/ GiveBack(t) \/ Begin(t) \/ SpuriousWakeup(t)
  PROVE  /\ pc' \in [Threads -> Places]
         /\ back' \in [Threads -> Holding \ {"leave"}]
         /\ check' \in [Threads -> BOOLEAN]
<1> USE DEF IInv, ControlInv, vars, lockVars, disableVars, nativeVars,
     compilerVars, threadVars, waitVars, othersOfLock
<1>1. CASE LockWanted(t)
  BY <1>1, PlaceNames DEF LockWanted, Goto
<1>2. CASE LockInterpreter(t)
  BY <1>2, ResumePlaces DEF LockInterpreter
<1>3. CASE Relock(t)
  BY <1>3, ResumePlaces DEF Relock
<1>4. CASE SpuriousWakeup(t)
  BY <1>4, PlaceNames DEF SpuriousWakeup, Goto
<1>5. CASE threads_allow(t)
  BY <1>5, PlaceNames DEF threads_allow, Allow, SwapOut, Goto
<1>6. CASE threads_disallow(t)
  BY <1>6, DisallowPlaces, PlaceNames DEF threads_disallow
<1>7. CASE swap_in(t)
  BY <1>7, PlaceNames DEF swap_in, SwapIn, Goto
<1>8. CASE threads_allow_ext(t)
  BY <1>8, PlaceNames DEF threads_allow_ext, Allow, SwapOut, Goto
<1>9. CASE threads_disallow_ext(t)
  BY <1>9, DisallowPlaces, PlaceNames DEF threads_disallow_ext
<1>10. CASE not_live(t)
  <2>1. \E conds : MayWait(t, "swap_in", Woken(conds))
    BY <1>10 DEF not_live
  <2> QED  BY <2>1, MayWaitPlaces
<1>11. CASE \E i \in IMs : lock_imutex(t, i)
  BY <1>11, PlaceNames DEF lock_imutex, Free, Allow, SwapOut, Goto
<1>12. CASE imutex(t)
  BY <1>12, DisallowPlaces, PlaceNames DEF imutex
<1>13. CASE unlock_imutex(t)
  BY <1>13, PlaceNames DEF unlock_imutex
<1>14. CASE compile(t)
  BY <1>14, PlaceNames DEF compile, Free, Goto
<1>15. CASE lock_pike_compiler(t)
  <2>1. CASE CompilerTaken(t)
    <3>1. \E cond, there : co_wait_interpreter(t, cond, there)
      BY <1>15, <2>1 DEF lock_pike_compiler
    <3> QED  BY <1>15, <2>1, <3>1, CoWaitFacts, PlaceNames DEF lock_pike_compiler, SwapOut
  <2>2. CASE ~(CompilerTaken(t))
    BY <1>15, <2>2, PlaceNames DEF lock_pike_compiler, SwapIn, Goto
  <2> QED  BY <2>1, <2>2
<1>16. CASE unlock_pike_compiler(t)
  BY <1>16, WokenFacts, PlaceNames DEF unlock_pike_compiler, Free
<1>17. CASE init_threads_disable(t)
  BY <1>17, PlaceNames DEF init_threads_disable, Free, Goto
<1>18. CASE leave(t)
  BY <1>18, PlaceNames DEF leave, Allow, SwapOut, Goto
<1>19. CASE interleave(t)
  BY <1>19, PlaceNames DEF interleave, Goto
<1>20. CASE lock_ims(t)
  <2>1. CASE want[t] \in IMs
    BY <1>20, <2>1 DEF lock_ims
  <2>2. CASE want[t] \notin IMs
    <3>1. Disallow(t, TRUE, "disable", "disable")
      BY <1>20, <2>2 DEF lock_ims
    <3> QED  BY <3>1, DisallowPlaces, PlaceNames
  <2> QED  BY <2>1, <2>2
<1>21. CASE disable(t)
  BY <1>21, PlaceNames DEF disable, SwapIn, Goto
<1>22. CASE live(t)
  <2>1. CASE live_threads > 0
    <3>1. /\ pc' = [pc EXCEPT ![t] = "sleep"]
          /\ back' = [back EXCEPT ![t] = "live"]
          /\ check' = [check EXCEPT ![t] = FALSE]
      BY <1>22, <2>1 DEF live, low_co_wait_interpreter, Sleep
    <3> QED  BY <3>1, PlaceNames
  <2>2. CASE ~(live_threads > 0)
    BY <1>22, <2>2, PlaceNames DEF live, Goto
  <2> QED  BY <2>1, <2>2
<1>23. CASE exit_threads_disable(t)
  BY <1>23, WokenFacts, PlaceNames DEF exit_threads_disable, Free
<1>24. CASE \E u \in Threads : create(t, u)
  BY <1>24, PlaceNames DEF create, Free, SwapOut
<1>25. CASE created(t)
  <2>1. CASE status[child[t]] \in {"NOT_STARTED"}
    <3>1. \E cond, there : co_wait_interpreter(t, cond, there)
      BY <1>25, <2>1 DEF created, AwaitStatus
    <3> QED  BY <1>25, <2>1, <3>1, CoWaitFacts, PlaceNames DEF created, AwaitStatus, SwapOut
  <2>2. CASE ~(status[child[t]] \in {"NOT_STARTED"})
    BY <1>25, <2>2, PlaceNames DEF created, AwaitStatus, SwapIn, Goto
  <2> QED  BY <2>1, <2>2
<1>26. CASE start(t)
  <2>1. \E conds : MayWait(t, "swap_in", Woken(conds))
    BY <1>26 DEF start
  <2> QED  BY <2>1, MayWaitPlaces
<1>27. CASE exit(t)
  BY <1>27, WokenFacts, PlaceNames DEF exit, Free, SwapOut
<1>28. CASE \E u \in Threads : wait(t, u)
  BY <1>28, PlaceNames DEF wait, Free, Goto
<1>29. CASE waited(t)
  <2>1. CASE status[child[t]] \in {"NOT_STARTED", "RUNNING"}
    <3>1. \E cond, there : co_wait_interpreter(t, cond, there)
      BY <1>29, <2>1 DEF waited, AwaitStatus
    <3> QED  BY <1>29, <2>1, <3>1, CoWaitFacts, PlaceNames DEF waited, AwaitStatus, SwapOut
  <2>2. CASE ~(status[child[t]] \in {"NOT_STARTED", "RUNNING"})
    BY <1>29, <2>2, PlaceNames DEF waited, AwaitStatus, SwapIn, Goto
  <2> QED  BY <2>1, <2>2
<1> QED  BY <1>1, <1>2, <1>3, <1>4, <1>5, <1>6, <1>7, <1>8, <1>9, <1>10, <1>11,
     <1>12, <1>13, <1>14, <1>15, <1>16, <1>17, <1>18, <1>19, <1>20, <1>21,
     <1>22, <1>23, <1>24, <1>25, <1>26, <1>27, <1>28, <1>29
     DEF Continue, TakeMutex, GiveBack, Begin

\* The local variables keep their types.
LEMMA LocalStep ==
  ASSUME IInv, NEW t \in Threads,
         Continue(t) \/ GiveBack(t) \/ Begin(t) \/ SpuriousWakeup(t)
  PROVE  /\ want' \in [Threads -> Nat]
         /\ job' \in [Threads -> {"none", "compile", "disable"}]
         /\ compiles' \in [Threads -> BOOLEAN]
<1> USE DEF IInv, ControlInv, vars, lockVars, disableVars, nativeVars,
     compilerVars, threadVars, waitVars, othersOfLock
<1>1. CASE LockWanted(t)
  BY <1>1 DEF LockWanted
<1>2. CASE LockInterpreter(t)
  BY <1>2 DEF LockInterpreter
<1>3. CASE Relock(t)
  BY <1>3 DEF Relock
<1>4. CASE SpuriousWakeup(t)
  BY <1>4 DEF SpuriousWakeup
<1>5. CASE threads_allow(t)
  BY <1>5 DEF threads_allow
<1>6. CASE threads_disallow(t)
  BY <1>6 DEF threads_disallow
<1>7. CASE swap_in(t)
  BY <1>7 DEF swap_in
<1>8. CASE threads_allow_ext(t)
  BY <1>8 DEF threads_allow_ext
<1>9. CASE threads_disallow_ext(t)
  BY <1>9 DEF threads_disallow_ext
<1>10. CASE not_live(t)
  BY <1>10 DEF not_live
<1>11. CASE \E i \in IMs : lock_imutex(t, i)
  BY <1>11 DEF lock_imutex, IMs
<1>12. CASE imutex(t)
  BY <1>12 DEF imutex
<1>13. CASE unlock_imutex(t)
  BY <1>13 DEF unlock_imutex
<1>14. CASE compile(t)
  BY <1>14 DEF compile
<1>15. CASE lock_pike_compiler(t)
  BY <1>15 DEF lock_pike_compiler
<1>16. CASE unlock_pike_compiler(t)
  BY <1>16 DEF unlock_pike_compiler
<1>17. CASE init_threads_disable(t)
  BY <1>17 DEF init_threads_disable
<1>18. CASE leave(t)
  BY <1>18 DEF leave
<1>19. CASE interleave(t)
  BY <1>19 DEF interleave
<1>20. CASE lock_ims(t)
  <2>1. /\ want' \in {[want EXCEPT ![t] = want[t] + 1], [want EXCEPT ![t] = 0]}
        /\ job' = job
        /\ compiles' = compiles
    BY <1>20 DEF lock_ims
  <2> QED  BY <2>1
<1>21. CASE disable(t)
  BY <1>21 DEF disable
<1>22. CASE live(t)
  BY <1>22 DEF live
<1>23. CASE exit_threads_disable(t)
  BY <1>23 DEF exit_threads_disable
<1>24. CASE \E u \in Threads : create(t, u)
  BY <1>24 DEF create
<1>25. CASE created(t)
  BY <1>25 DEF created, AwaitStatus
<1>26. CASE start(t)
  BY <1>26 DEF start
<1>27. CASE exit(t)
  BY <1>27 DEF exit
<1>28. CASE \E u \in Threads : wait(t, u)
  BY <1>28 DEF wait
<1>29. CASE waited(t)
  BY <1>29 DEF waited, AwaitStatus
<1> QED  BY <1>1, <1>2, <1>3, <1>4, <1>5, <1>6, <1>7, <1>8, <1>9, <1>10, <1>11,
     <1>12, <1>13, <1>14, <1>15, <1>16, <1>17, <1>18, <1>19, <1>20, <1>21,
     <1>22, <1>23, <1>24, <1>25, <1>26, <1>27, <1>28, <1>29
     DEF Continue, TakeMutex, GiveBack, Begin

\* The other variables keep their types, given those of the counters.
LEMMA TypeStep ==
  ASSUME IInv, NEW t \in Threads,
         Continue(t) \/ GiveBack(t) \/ Begin(t) \/ SpuriousWakeup(t),
         {live_threads', num_threads', lock_depth'} \subseteq Nat
  PROVE  TypeOK'
<1> USE LockAssumption DEF TypeOK, vars, lockVars, disableVars, nativeVars,
     compilerVars, threadVars, waitVars, othersOfLock
<1>a. TypeOK
  BY DEF IInv, ControlInv
<1>1. CASE LockWanted(t)
  BY <1>1, <1>a DEF LockWanted, Goto
<1>2. CASE LockInterpreter(t)
  BY <1>2, <1>a DEF LockInterpreter, Resume
<1>3. CASE Relock(t)
  BY <1>3, <1>a DEF Relock, Resume
<1>4. CASE SpuriousWakeup(t)
  BY <1>4, <1>a DEF SpuriousWakeup, Goto
<1>5. CASE threads_allow(t)
  BY <1>5, <1>a DEF threads_allow, Allow, SwapOut, Goto
<1>6. CASE threads_disallow(t)
  BY <1>6, <1>a DEF threads_disallow, Disallow, Goto
<1>7. CASE swap_in(t)
  BY <1>7, <1>a DEF swap_in, SwapIn, Goto
<1>8. CASE threads_allow_ext(t)
  BY <1>8, <1>a DEF threads_allow_ext, Allow, SwapOut, Goto
<1>9. CASE threads_disallow_ext(t)
  BY <1>9, <1>a DEF threads_disallow_ext, Disallow, Goto
<1>10. CASE not_live(t)
  <2>1. \E conds : MayWait(t, "swap_in", Woken(conds))
    BY <1>10 DEF not_live
  <2>2. ControlInv
    BY DEF IInv
  <2> QED  BY <1>10, <2>1, <2>2, <1>a, MayWaitFacts DEF not_live
<1>11. CASE \E i \in IMs : lock_imutex(t, i)
  BY <1>11, <1>a DEF lock_imutex, Free, Allow, SwapOut, Goto
<1>12. CASE imutex(t)
  BY <1>12, <1>a DEF imutex, Disallow, Goto
<1>13. CASE unlock_imutex(t)
  BY <1>13, <1>a DEF unlock_imutex
<1>14. CASE compile(t)
  BY <1>14, <1>a DEF compile, Free, Goto
<1>15. CASE lock_pike_compiler(t)
  <2>1. interpreter_lock' \in {NoThread, interpreter_lock}
    BY <1>15 DEF lock_pike_compiler, co_wait_interpreter, Sleep
  <2>2. interpreter_lock_wanted' = interpreter_lock_wanted
    BY <1>15 DEF lock_pike_compiler, co_wait_interpreter, Sleep
  <2>3. swapped' \in [Threads -> BOOLEAN]
    BY <1>15, <1>a DEF lock_pike_compiler, SwapOut, SwapIn
  <2> QED  BY <1>15, <1>a, <2>1, <2>2, <2>3 DEF lock_pike_compiler
<1>16. CASE unlock_pike_compiler(t)
  BY <1>16, <1>a DEF unlock_pike_compiler, Free
<1>17. CASE init_threads_disable(t)
  BY <1>17, <1>a DEF init_threads_disable, Free, Goto
<1>18. CASE leave(t)
  BY <1>18, <1>a DEF leave, Allow, SwapOut, Goto
<1>19. CASE interleave(t)
  BY <1>19, <1>a DEF interleave, Goto
<1>20. CASE lock_ims(t)
  BY <1>20, <1>a DEF lock_ims, Disallow, Goto
<1>21. CASE disable(t)
  BY <1>21, <1>a DEF disable, SwapIn, Goto
<1>22. CASE live(t)
  <2>1. interpreter_lock' \in {NoThread, interpreter_lock}
    BY <1>22 DEF live, low_co_wait_interpreter, Sleep
  <2>2. interpreter_lock_wanted' = interpreter_lock_wanted
    BY <1>22 DEF live, low_co_wait_interpreter, Sleep
  <2>3. swapped' \in [Threads -> BOOLEAN]
    BY <1>22, <1>a DEF live, SwapOut, SwapIn
  <2> QED  BY <1>22, <1>a, <2>1, <2>2, <2>3 DEF live
<1>23. CASE exit_threads_disable(t)
  <2>1. threads_disabled \in Nat \ {0}
    BY <1>23, <1>a DEF IInv, DisableInv, LockInv, At, Locking, exit_threads_disable, Free
  <2> QED  BY <1>23, <1>a, <2>1 DEF exit_threads_disable
<1>24. CASE \E u \in Threads : create(t, u)
  BY <1>24, <1>a DEF create, Free, SwapOut
<1>25. CASE created(t)
  <2>1. interpreter_lock' \in {NoThread, interpreter_lock}
    BY <1>25 DEF created, AwaitStatus, co_wait_interpreter, Sleep
  <2>2. interpreter_lock_wanted' = interpreter_lock_wanted
    BY <1>25 DEF created, AwaitStatus, co_wait_interpreter, Sleep
  <2>3. swapped' \in [Threads -> BOOLEAN]
    BY <1>25, <1>a DEF created, AwaitStatus, SwapOut, SwapIn
  <2> QED  BY <1>25, <1>a, <2>1, <2>2, <2>3 DEF created, AwaitStatus
<1>26. CASE start(t)
  <2>1. \E conds : MayWait(t, "swap_in", Woken(conds))
    BY <1>26 DEF start
  <2>2. ControlInv
    BY DEF IInv
  <2> QED  BY <1>26, <2>1, <2>2, <1>a, MayWaitFacts DEF start
<1>27. CASE exit(t)
  BY <1>27, <1>a DEF exit, Free, SwapOut
<1>28. CASE \E u \in Threads : wait(t, u)
  BY <1>28, <1>a DEF wait, Free, Goto
<1>29. CASE waited(t)
  <2>1. interpreter_lock' \in {NoThread, interpreter_lock}
    BY <1>29 DEF waited, AwaitStatus, co_wait_interpreter, Sleep
  <2>2. interpreter_lock_wanted' = interpreter_lock_wanted
    BY <1>29 DEF waited, AwaitStatus, co_wait_interpreter, Sleep
  <2>3. swapped' \in [Threads -> BOOLEAN]
    BY <1>29, <1>a DEF waited, AwaitStatus, SwapOut, SwapIn
  <2> QED  BY <1>29, <1>a, <2>1, <2>2, <2>3 DEF waited, AwaitStatus
<1> QED  BY <1>1, <1>2, <1>3, <1>4, <1>5, <1>6, <1>7, <1>8, <1>9, <1>10, <1>11,
     <1>12, <1>13, <1>14, <1>15, <1>16, <1>17, <1>18, <1>19, <1>20, <1>21,
     <1>22, <1>23, <1>24, <1>25, <1>26, <1>27, <1>28, <1>29
     DEF Continue, TakeMutex, GiveBack, Begin

-----------------------------------------------------------------------------
(* The theorems.                                                           *)

\* The counters are natural numbers, by what they count.
LEMMA CountersNat ==
  CountInv /\ CompilerInv => {live_threads, num_threads, lock_depth} \subseteq Nat
<1> SUFFICES ASSUME CountInv, CompilerInv
             PROVE  {live_threads, num_threads, lock_depth} \subseteq Nat
  OBVIOUS
<1>1. live_threads \in Nat /\ num_threads \in Nat
  BY CountedFinite, FS_CardinalityType DEF CountInv
<1>2. lock_depth \in Nat
  <2>1. CASE \A t \in Threads : Depth(t) = 0
    BY <2>1 DEF CompilerInv
  <2>2. CASE \E t \in Threads : Depth(t) # 0
    <3>1. PICK t \in Threads : Depth(t) # 0
      BY <2>2
    <3>2. Depth(t) \in Nat
      BY DEF Depth
    <3> QED  BY <3>1, <3>2 DEF CompilerInv
  <2> QED  BY <2>1, <2>2
<1> QED  BY <1>1, <1>2

\* The invariant holds when the main thread starts.
LEMMA InitInv == Init => IInv
<1> SUFFICES ASSUME Init PROVE IInv
  OBVIOUS
<1> USE LockAssumption DEF Init
<1>1. ControlInv
  BY DEF ControlInv, TypeOK, Places, IMs, Locking, Holding, Section
<1>2. LockInv
  BY DEF LockInv, Locking, Holding
<1>3. DisableInv /\ MutexInv /\ HaltInv
  BY DEF DisableInv, MutexInv, HaltInv, At, Locking
<1>4. CountInv
  <2>1. Live = {} /\ Started = {Main}
    BY DEF Live, Started, At
  <2> QED  BY <2>1, FS_EmptySet, FS_Singleton DEF CountInv
<1>5. CompilerInv
  BY DEF CompilerInv, Depth, Holds, At
<1> QED  BY <1>1, <1>2, <1>3, <1>4, <1>5 DEF IInv

\* Every step keeps the invariant.
LEMMA NextInv == IInv /\ [Next]_vars => IInv'
<1> SUFFICES ASSUME IInv, [Next]_vars PROVE IInv'
  OBVIOUS
<1>1. CASE Next
  <2>1. PICK t \in Threads : Continue(t) \/ GiveBack(t) \/ Begin(t) \/ SpuriousWakeup(t)
    BY <1>1 DEF Next
  <2>2. LockInv' /\ DisableInv' /\ MutexInv' /\ HaltInv'
    BY <2>1, LockStep, DisableStep, MutexStep, HaltStep
  <2>3. CountInv' /\ CompilerInv'
    BY <2>1, CountStep, CompilerStep
  <2>4. ({live_threads, num_threads, lock_depth} \subseteq Nat)'
    BY <2>3, CountersNat, PTL
  <2>5. ControlInv'
    BY <2>1, <2>4, PlaceStep, LocalStep, TypeStep DEF ControlInv
  <2> QED  BY <2>2, <2>3, <2>5 DEF IInv
<1>2. CASE UNCHANGED vars
  BY <1>2 DEF IInv, ControlInv, TypeOK, LockInv, DisableInv, MutexInv, HaltInv, CountInv,
     CompilerInv, Depth, Holds, Live, Started, At, vars, lockVars, disableVars, nativeVars,
     compilerVars, threadVars, waitVars
<1> QED  BY <1>1, <1>2

\* The inductive invariant: who has the interpreter lock, interleave_lock, the
\* mutexes of interleave_list and the compiler lock, and what is counted.
THEOREM Invariance == Spec => []IInv
BY InitInv, NextInv, PTL DEF Spec

\* Every variable keeps its type: no counter (threads_disabled, live_threads,
\* num_threads, lock_depth) becomes negative.
THEOREM InterpreterTypeCorrect == Spec => []TypeOK
<1>1. IInv => TypeOK
  BY DEF IInv, ControlInv
<1> QED  BY <1>1, Invariance, PTL

\* At most one thread has its state swapped in, the one that has the
\* interpreter lock, and a thread that runs Pike code is that one.
THEOREM SwappedInOnce == Spec => []OneSwappedIn
<1>1. IInv => OneSwappedIn
  BY DEF IInv, LockInv, OneSwappedIn
<1> QED  BY <1>1, Invariance, PTL

\* While a thread keeps threads disabled, no other one runs Pike code or has a
\* mutex of interleave_list, nor is in a section of THREADS_ALLOW_UID() once
\* _disable_threads() has returned.
THEOREM OthersHalted == Spec => []Halted
<1>1. IInv => Halted
  <2> SUFFICES ASSUME IInv, NEW t \in Threads, NEW u \in Threads,
                      threads_disabled > 0, interleave_lock = t, u # t
               PROVE  /\ pc[u] # "run"
                      /\ ~HasIM(u)
                      /\ "not_live" \in {pc[u], back[u]} \/ pc[u] = "allow_uid" =>
                           "live" \in {pc[t], back[t]}
    BY DEF Halted
  <2>1. swapped[u] /\ pc[u] # "run"
    BY DEF IInv, HaltInv, Locking, Section
  <2>2. ~HasIM(u)
    BY DEF IInv, MutexInv, HasIM
  <2>3. ASSUME "not_live" \in {pc[u], back[u]} \/ pc[u] = "allow_uid"
        PROVE  "live" \in {pc[t], back[t]}
    <3>1. u \in Live
      BY <2>1, <2>3 DEF Live, At
    <3> QED  BY <3>1 DEF IInv, CountInv, At
  <2> QED  BY <2>1, <2>2, <2>3
<1> QED  BY <1>1, Invariance, PTL

=============================================================================
