---------------------------- MODULE RenameProofs ----------------------------
(***************************************************************************)
(* The rename worker and the status checks: no gallery is lost, one thread *)
(* logs in at a time, and a cancelled check stores nothing, for any number *)
(* of galleries and checks and whatever the host answers.                  *)
(***************************************************************************)
EXTENDS ImageStatusChecker, SequenceTheorems, TLAPS

\* Where each thread can be, and what it has there.
RestPCs == {"get", "over", "next", "login", "drain"}
ToAsk == {"ask", "reauth", "asleep", "relogin", "release"}
PCsOf(t) ==
    CASE t = "login" -> {"login", "next", "dead", "over"} \cup ToAsk
      [] t = "rename" -> {"get", "wait", "dead", "keep", "drain", "over"} \cup ToAsk
      [] t = "status" -> {"get", "wait", "answer", "over"} \cup ToAsk
Own(t) == IF t = "status" THEN Checks ELSE Galleries

Fits(t, r) ==
    /\ r \in Thread /\ r.pc \in PCsOf(t)
    /\ r.pc \in RestPCs => r.job = None
    /\ r.pc \notin RestPCs => r.job \in Own(t)

Typed ==
    /\ running \in BOOLEAN /\ loginDone \in BOOLEAN /\ authed \in BOOLEAN
    /\ reauth \in BOOLEAN /\ recent \in BOOLEAN /\ lock \in Threads \cup {None}
    /\ renames \in Seq(Galleries \cup {None}) /\ checks \in Seq(Checks \cup {None})
    /\ cancelled \in BOOLEAN /\ snapshot \subseteq Galleries
    /\ unnamed \subseteq Galleries /\ renamed \subseteq Galleries /\ requested \subseteq Galleries
    /\ thread \in [Threads -> Thread] /\ \A t \in Threads : Fits(t, thread[t])

-----------------------------------------------------------------------------
(* How a thread moves.                                                     *)

\* Only t moves, to pc with job.
Moves(t, pc, job) ==
    /\ thread' \in [Threads -> Thread]
    /\ thread'[t].pc = pc /\ thread'[t].job = job
    /\ \A u \in Threads : u # t => thread'[u] = thread[u]

LEMMA Going ==
  ASSUME thread \in [Threads -> Thread], NEW t \in Threads
  PROVE  /\ \A pc \in PCs : Goto(t, pc) => Moves(t, pc, Job(t))
         /\ \A pc \in PCs, job \in Galleries \cup Checks \cup {None} : Begin(t, pc, job) => Moves(t, pc, job)
         /\ \A pc \in PCs : End(t, pc) => Moves(t, pc, None)
         /\ \A a \in Answers : Report(t, a) => Moves(t, "answer", Job(t))
         /\ \A ok \in BOOLEAN : thread' = [thread EXCEPT ![t].pc = "release", ![t].ok = ok]
              => Moves(t, "release", Job(t))
<1>. thread[t] \in Thread
  OBVIOUS
<1>1. ASSUME NEW pc \in PCs, Goto(t, pc) PROVE Moves(t, pc, Job(t))
  BY <1>1 DEF Goto, Moves, Job, Thread
<1>2. ASSUME NEW pc \in PCs, NEW job \in Galleries \cup Checks \cup {None}, Begin(t, pc, job)
      PROVE  Moves(t, pc, job)
  BY <1>2 DEF Begin, Moves, Thread
<1>3. ASSUME NEW pc \in PCs, End(t, pc) PROVE Moves(t, pc, None)
  <2>1. Idle(pc) \in Thread /\ Idle(pc).pc = pc /\ Idle(pc).job = None
    BY DEF Idle, Thread, Answers
  <2>. QED
    BY <1>3, <2>1 DEF End, Moves
<1>4. ASSUME NEW a \in Answers, Report(t, a) PROVE Moves(t, "answer", Job(t))
  BY <1>4 DEF Report, Moves, Job, Thread, PCs
<1>5. ASSUME NEW ok \in BOOLEAN, thread' = [thread EXCEPT ![t].pc = "release", ![t].ok = ok]
      PROVE  Moves(t, "release", Job(t))
  BY <1>5 DEF Moves, Job, Thread, PCs
<1>. QED
  BY <1>1, <1>2, <1>3, <1>4, <1>5

LEMMA Resuming ==
  ASSUME thread \in [Threads -> Thread], NEW t \in Threads, NEW ok \in BOOLEAN, Resume(t, ok)
  PROVE  \E pc \in {"ask", IF t = "status" THEN "answer" ELSE "dead"} : Moves(t, pc, Job(t))
<1>. thread[t] \in Thread
  OBVIOUS
<1>. DEFINE pc == IF ok THEN "ask" ELSE IF t = "status" THEN "answer" ELSE "dead"
            a == IF t = "status" /\ ~ok THEN "error" ELSE "nothing"
            r == [thread[t] EXCEPT !.pc = pc, !.retried = ok, !.ok = FALSE, !.answer = a]
<1>1. pc \in {"ask", IF t = "status" THEN "answer" ELSE "dead"} /\ pc \in PCs /\ a \in Answers
  BY DEF PCs, Answers
<1>2. thread' = [thread EXCEPT ![t] = r]
  BY DEF Resume
<1>. HIDE DEF pc, a
<1>3. r \in Thread /\ r.pc = pc /\ r.job = Job(t)
  BY <1>1 DEF Thread, Job
<1>. HIDE DEF r
<1>4. Moves(t, pc, Job(t))
  BY <1>2, <1>3 DEF Moves
<1>. QED
  BY <1>1, <1>4

\* A thread that fits where it has moved to.
LEMMA MovesFit ==
  ASSUME Typed, NEW t \in Threads, NEW pc, NEW job, Moves(t, pc, job), pc \in PCsOf(t),
         pc \in RestPCs => job = None, pc \notin RestPCs => job \in Own(t)
  PROVE  thread' \in [Threads -> Thread] /\ \A u \in Threads : Fits(u, thread'[u])
  BY DEF Typed, Moves, Fits

\* The steps around a session that has expired.
GivesUp(t) == IF t = "status" THEN "answer" ELSE "dead"

LEMMA SessionSteps ==
  ASSUME Typed, NEW t \in Threads, Reauth(t) \/ Wake(t) \/ Relogin(t) \/ Release(t)
  PROVE  /\ UNCHANGED <<loginDone, snapshot, queueVars, tableVars>>
         /\ authed' \in BOOLEAN /\ reauth' \in BOOLEAN /\ recent' \in BOOLEAN /\ lock' \in Threads \cup {None}
         /\ \E pc \in PCs :
              /\ Moves(t, pc, Job(t))
              /\ \/ thread[t].pc = "reauth" /\ pc = "relogin" /\ ~reauth /\ reauth' = TRUE
                 \/ thread[t].pc = "relogin" /\ pc = "release" /\ reauth' = reauth
                 \/ thread[t].pc = "release" /\ pc \in {"ask", GivesUp(t)} /\ reauth' = FALSE
                 \/ thread[t].pc \in {"reauth", "asleep"} /\ pc \in {"asleep", "ask", GivesUp(t)}
                    /\ reauth' = reauth
<1>. /\ thread \in [Threads -> Thread] /\ thread[t] \in Thread /\ thread[t].ok \in BOOLEAN
     /\ authed \in BOOLEAN /\ reauth \in BOOLEAN /\ recent \in BOOLEAN /\ lock \in Threads \cup {None}
  BY DEF Typed, Thread
<1>0. {"relogin", "release", "asleep", "ask", GivesUp(t)} \subseteq PCs
  BY DEF PCs, GivesUp
<1>1. CASE Reauth(t)
  <2>1. CASE Resume(t, FALSE) /\ UNCHANGED lockVars
    <3>1. PICK pc \in {"ask", GivesUp(t)} : Moves(t, pc, Job(t))
      BY <2>1, Resuming DEF GivesUp
    <3>. QED
      BY <1>0, <1>1, <2>1, <3>1 DEF Reauth, At, lockVars
  <2>2. CASE lock' = t /\ Goto(t, "asleep") /\ UNCHANGED <<reauth, recent>>
    <3>1. Moves(t, "asleep", Job(t))
      BY <1>0, <2>2, Going
    <3>. QED
      BY <1>0, <1>1, <2>2, <3>1 DEF Reauth, At
  <2>3. CASE ~reauth /\ reauth' = TRUE /\ recent' = TRUE /\ Goto(t, "relogin") /\ UNCHANGED lock
    <3>1. Moves(t, "relogin", Job(t))
      BY <1>0, <2>3, Going
    <3>. QED
      BY <1>0, <1>1, <2>3, <3>1 DEF Reauth, At
  <2>. QED
    BY <1>1, <2>1, <2>2, <2>3 DEF Reauth
<1>2. CASE Wake(t)
  <2>1. PICK pc \in {"ask", GivesUp(t)} : Moves(t, pc, Job(t))
    BY <1>2, Resuming DEF Wake, GivesUp
  <2>. QED
    BY <1>0, <1>2, <2>1 DEF Wake, At
<1>3. CASE Relogin(t)
  <2>1. Moves(t, "release", Job(t))
    BY <1>3, Going DEF Relogin
  <2>. QED
    BY <1>0, <1>3, <2>1 DEF Relogin, At, lockVars
<1>4. CASE Release(t)
  <2>1. PICK pc \in {"ask", GivesUp(t)} : Moves(t, pc, Job(t))
    BY <1>4, Resuming DEF Release, GivesUp
  <2>. QED
    BY <1>0, <1>4, <2>1 DEF Release, At
<1>. QED
  BY <1>1, <1>2, <1>3, <1>4

\* Where a thread goes for its next job.
NextPc(t) == IF t = "login" THEN "next" ELSE IF running THEN "get" ELSE "over"

LEMMA Finishing ==
  ASSUME thread \in [Threads -> Thread], NEW t \in Threads, Done(t)
  PROVE  Moves(t, NextPc(t), None) /\ NextPc(t) \in PCs \cap RestPCs
<1>1. NextPc(t) \in PCs \cap RestPCs
  BY DEF NextPc, PCs, RestPCs
<1>2. End(t, NextPc(t))
  BY DEF Done, NextPc
<1>3. PICK pc \in PCs : pc = NextPc(t)
  BY <1>1
<1>4. Moves(t, pc, None)
  BY <1>2, <1>3, Going
<1>. QED
  BY <1>1, <1>3, <1>4

\* The steps of a thread that renames, with the gallery it has in hand.
FailsTo(t) == \/ t = "login" /\ Moves(t, "next", None)
              \/ t = "rename" /\ Moves(t, "keep", Job(t))

LEMMA Failing ==
  ASSUME thread \in [Threads -> Thread], NEW t \in Renamers, Fail(t)
  PROVE  FailsTo(t)
<1>. t \in Threads
  BY DEF Renamers, Threads
<1>1. CASE t = "login"
  BY <1>1, Finishing DEF Fail, FailsTo, NextPc
<1>2. CASE t = "rename"
  <2>1. Goto(t, "keep") /\ "keep" \in PCs
    BY <1>2 DEF Fail, PCs
  <2>. QED
    BY <1>2, <2>1, Going DEF FailsTo
<1>. QED
  BY <1>1, <1>2 DEF Renamers

LEMMA AskSteps ==
  ASSUME Typed, NEW t \in Threads, AskName(t)
  PROVE  /\ t \in Renamers /\ thread[t].pc = "ask"
         /\ UNCHANGED <<loginDone, authed, snapshot, lockVars, queueVars, requested>>
         /\ \/ /\ renamed' = renamed \cup {Job(t)} /\ unnamed' = unnamed \ {Job(t)}
               /\ Moves(t, NextPc(t), None) /\ NextPc(t) \in PCs \cap RestPCs
            \/ /\ renamed' \in {renamed, renamed \cup {Job(t)}} /\ unnamed' = unnamed /\ FailsTo(t)
            \/ /\ renamed' = renamed /\ unnamed' = unnamed
               /\ \E pc \in {"dead", "reauth"} : Moves(t, pc, Job(t))
<1>. thread \in [Threads -> Thread]
  BY DEF Typed
<1>1. /\ t \in Renamers /\ thread[t].pc = "ask"
      /\ UNCHANGED <<loginDone, authed, snapshot, lockVars, queueVars, requested>>
  BY DEF AskName, At
<1>2. CASE renamed' = renamed \cup {Job(t)} /\ unnamed' = unnamed \ {Job(t)} /\ Done(t)
  BY <1>1, <1>2, Finishing
<1>3. CASE renamed' \in {renamed, renamed \cup {Job(t)}} /\ unnamed' = unnamed /\ Fail(t)
  BY <1>1, <1>3, Failing
<1>4. CASE UNCHANGED <<renamed, unnamed>> /\ Goto(t, IF thread[t].retried THEN "dead" ELSE "reauth")
  <2>1. PICK pc \in {"dead", "reauth"} : Goto(t, pc)
    BY <1>4
  <2>2. pc \in PCs
    BY DEF PCs
  <2>3. Moves(t, pc, Job(t))
    BY <2>1, <2>2, Going
  <2>. QED
    BY <1>1, <1>4, <2>1, <2>3
<1>. QED
  BY <1>2, <1>3, <1>4 DEF AskName

LEMMA DeadSteps ==
  ASSUME Typed, NEW t \in Threads, MarkDead(t)
  PROVE  /\ t \in Renamers /\ thread[t].pc = "dead" /\ authed' = FALSE
         /\ UNCHANGED <<loginDone, snapshot, lockVars, queueVars, tableVars>>
         /\ FailsTo(t)
<1>1. thread[t].pc = "dead" /\ Fits(t, thread[t]) /\ Fail(t)
  BY DEF MarkDead, At, Typed
<1>2. t \in Renamers
  BY <1>1 DEF Fits, PCsOf, ToAsk, Threads, Renamers
<1>. QED
  BY <1>1, <1>2, Failing DEF MarkDead, Typed

\* The initial login.
LEMMA LoginSteps ==
  ASSUME Typed, Login \/ NextUnnamed \/ LoginOver
  PROVE  /\ UNCHANGED <<lockVars, queueVars, tableVars>>
         /\ snapshot' \subseteq Galleries /\ authed' \in BOOLEAN
         /\ \/ /\ thread["login"].pc = "login" /\ loginDone' = loginDone
               /\ Moves("login", "next", Job("login"))
            \/ /\ thread["login"].pc = "next" /\ loginDone' = loginDone
               /\ \E g \in Galleries : Moves("login", "ask", g)
            \/ /\ thread["login"].pc = "next" /\ loginDone' = TRUE
               /\ Moves("login", "over", None)
<1>. /\ thread \in [Threads -> Thread] /\ "login" \in Threads /\ {"next", "ask", "over"} \subseteq PCs
     /\ snapshot \subseteq Galleries /\ unnamed \subseteq Galleries /\ authed \in BOOLEAN
  BY DEF Typed, Threads, PCs
<1>1. CASE Login
  <2>1. Moves("login", "next", Job("login"))
    BY <1>1, Going DEF Login
  <2>. QED
    BY <1>1, <2>1 DEF Login, At
<1>2. CASE NextUnnamed
  <2>1. PICK g \in snapshot : snapshot' = snapshot \ {g} /\ Begin("login", "ask", g)
    BY <1>2 DEF NextUnnamed
  <2>2. Moves("login", "ask", g)
    BY <2>1, Going
  <2>. QED
    BY <1>2, <2>1, <2>2 DEF NextUnnamed, At
<1>3. CASE LoginOver
  <2>1. Moves("login", "over", None)
    BY <1>3, Going DEF LoginOver
  <2>. QED
    BY <1>3, <2>1 DEF LoginOver, At
<1>. QED
  BY <1>1, <1>2, <1>3

\* The thread that renames.
LEMMA RenameSteps ==
  ASSUME Typed, TakeRename \/ AwaitLogin \/ KeepForLater \/ Drain
  PROVE  /\ UNCHANGED <<loginDone, authed, snapshot, lockVars, running, checks, cancelled, renamed, requested>>
         /\ \/ /\ thread["rename"].pc = "get" /\ renames # <<>> /\ renames' = Tail(renames) /\ unnamed' = unnamed
               /\ Head(renames) \in Galleries \cup {None}
               /\ \/ Head(renames) = None /\ Moves("rename", "over", None)
                  \/ Head(renames) \in Galleries /\ Moves("rename", "wait", Head(renames))
            \/ /\ thread["rename"].pc = "wait" /\ renames' = renames
               /\ \/ loginDone /\ Moves("rename", "ask", Job("rename")) /\ unnamed' = unnamed
                  \/ /\ unnamed' = unnamed \cup {Job("rename")}
                     /\ \E pc \in {"get", "over"} : Moves("rename", pc, None)
            \/ /\ thread["rename"].pc = "keep" /\ renames' = renames /\ unnamed' = unnamed \cup {Job("rename")}
               /\ \E pc \in {"get", "over", "drain"} : Moves("rename", pc, None)
            \/ /\ thread["rename"].pc = "drain"
               /\ \/ /\ renames = <<>> /\ renames' = renames /\ unnamed' = unnamed
                     /\ Moves("rename", "over", None)
                  \/ /\ renames # <<>> /\ renames' = Tail(renames) /\ thread' = thread
                     /\ unnamed' = unnamed \cup ({Head(renames)} \ {None})
<1>. /\ thread \in [Threads -> Thread] /\ "rename" \in Threads
     /\ {"get", "over", "wait", "ask", "drain"} \subseteq PCs /\ renames \in Seq(Galleries \cup {None})
  BY DEF Typed, Threads, PCs
<1>1. ASSUME Done("rename") PROVE \E pc \in {"get", "over"} : Moves("rename", pc, None)
  BY <1>1, Finishing DEF NextPc
<1>2. CASE TakeRename
  <2>1. Head(renames) \in Galleries \cup {None} /\ renames # <<>> /\ renames' = Tail(renames)
    BY <1>2 DEF TakeRename
  <2>2. CASE Head(renames) = None
    <3>1. Moves("rename", "over", None)
      BY <1>2, <2>2, Going DEF TakeRename
    <3>. QED
      BY <1>2, <2>1, <2>2, <3>1 DEF TakeRename, At, tableVars
  <2>3. CASE Head(renames) # None
    <3>1. Moves("rename", "wait", Head(renames))
      BY <1>2, <2>1, <2>3, Going DEF TakeRename
    <3>. QED
      BY <1>2, <2>1, <2>3, <3>1 DEF TakeRename, At, tableVars
  <2>. QED
    BY <2>2, <2>3
<1>3. CASE AwaitLogin
  <2>1. CASE loginDone /\ authed
    <3>1. Moves("rename", "ask", Job("rename"))
      BY <1>3, <2>1, Going DEF AwaitLogin
    <3>. QED
      BY <1>3, <2>1, <3>1 DEF AwaitLogin, At, queueVars
  <2>2. CASE ~(loginDone /\ authed)
    BY <1>1, <1>3, <2>2 DEF AwaitLogin, At, queueVars
  <2>. QED
    BY <2>1, <2>2
<1>4. CASE KeepForLater
  <2>1. CASE authed
    BY <1>1, <1>4, <2>1 DEF KeepForLater, At, queueVars
  <2>2. CASE ~authed
    <3>1. Moves("rename", "drain", None)
      BY <1>4, <2>2, Going DEF KeepForLater
    <3>. QED
      BY <1>4, <3>1 DEF KeepForLater, At, queueVars
  <2>. QED
    BY <2>1, <2>2
<1>5. CASE Drain
  <2>1. CASE renames = <<>>
    <3>1. Moves("rename", "over", None)
      BY <1>5, <2>1, Going DEF Drain
    <3>. QED
      BY <1>5, <2>1, <3>1 DEF Drain, At
  <2>2. CASE renames # <<>>
    BY <1>5, <2>2 DEF Drain, At
  <2>. QED
    BY <2>1, <2>2
<1>. QED
  BY <1>2, <1>3, <1>4, <1>5

\* The thread that checks.
LEMMA StatusSteps ==
  ASSUME Typed, TakeCheck \/ AwaitLoginToCheck \/ AskStatus
  PROVE  /\ UNCHANGED <<loginDone, authed, snapshot, lockVars, running, renames, cancelled, tableVars>>
         /\ \/ /\ thread["status"].pc = "get" /\ checks # <<>> /\ checks' = Tail(checks)
               /\ Head(checks) \in Checks \cup {None}
               /\ \/ Head(checks) = None /\ Moves("status", "over", None)
                  \/ Head(checks) \in Checks /\ Moves("status", "wait", Head(checks))
            \/ /\ thread["status"].pc = "wait" /\ checks' = checks
               /\ \/ Moves("status", "answer", Job("status"))
                  \/ loginDone /\ Moves("status", "ask", Job("status"))
            \/ /\ thread["status"].pc = "ask" /\ checks' = checks
               /\ \E pc \in {"answer", "reauth"} : Moves("status", pc, Job("status"))
<1>. /\ thread \in [Threads -> Thread] /\ "status" \in Threads
     /\ {"over", "wait", "ask", "reauth"} \subseteq PCs /\ checks \in Seq(Checks \cup {None})
     /\ {"nothing", "results", "error"} = Answers
  BY DEF Typed, Threads, PCs, Answers
<1>1. ASSUME \E a \in Answers : Report("status", a) PROVE Moves("status", "answer", Job("status"))
  BY <1>1, Going
<1>2. CASE TakeCheck
  <2>1. Head(checks) \in Checks \cup {None} /\ checks # <<>> /\ checks' = Tail(checks)
    BY <1>2 DEF TakeCheck
  <2>2. CASE Head(checks) = None
    <3>1. Moves("status", "over", None)
      BY <1>2, <2>2, Going DEF TakeCheck
    <3>. QED
      BY <1>2, <2>1, <2>2, <3>1 DEF TakeCheck, At
  <2>3. CASE Head(checks) # None
    <3>1. Moves("status", "wait", Head(checks))
      BY <1>2, <2>1, <2>3, Going DEF TakeCheck
    <3>. QED
      BY <1>2, <2>1, <2>3, <3>1 DEF TakeCheck, At
  <2>. QED
    BY <2>2, <2>3
<1>3. CASE AwaitLoginToCheck
  <2>1. CASE Report("status", "error") \/ Report("status", "nothing")
    BY <1>1, <1>3, <2>1 DEF AwaitLoginToCheck, At, queueVars
  <2>2. CASE loginDone /\ Goto("status", "ask")
    <3>1. Moves("status", "ask", Job("status"))
      BY <2>2, Going
    <3>. QED
      BY <1>3, <2>2, <3>1 DEF AwaitLoginToCheck, At, queueVars
  <2>. QED
    BY <1>3, <2>1, <2>2 DEF AwaitLoginToCheck
<1>4. CASE AskStatus
  <2>1. CASE \E a \in Answers : Report("status", a)
    BY <1>1, <1>4, <2>1 DEF AskStatus, At, queueVars
  <2>2. CASE Goto("status", "reauth")
    <3>1. Moves("status", "reauth", Job("status"))
      BY <2>2, Going
    <3>. QED
      BY <1>4, <2>2, <3>1 DEF AskStatus, At, queueVars
  <2>3. (\E a \in Answers : Report("status", a)) \/ Goto("status", "reauth")
    BY <1>4 DEF AskStatus
  <2>. QED
    BY <2>1, <2>2, <2>3
<1>. QED
  BY <1>2, <1>3, <1>4

LEMMA AnswerSteps ==
  ASSUME Typed, EmitAnswer
  PROVE  /\ UNCHANGED <<loginDone, authed, snapshot, lockVars, queueVars, tableVars>>
         /\ UNCHANGED <<checker, connected, applied, dropped>>
         /\ thread["status"].pc = "answer" /\ thread["status"].job \in Checks /\ thread["status"].answer \in Answers
         /\ \E pc \in {"get", "over"} : Moves("status", pc, None)
         /\ inbox' = IF connected = None THEN inbox
                     ELSE Append(inbox, [check |-> Job("status"), answer |-> thread["status"].answer,
                                         to |-> connected])
<1>. thread \in [Threads -> Thread] /\ "status" \in Threads /\ Fits("status", thread["status"])
  BY DEF Typed, Threads
<1>1. \E pc \in {"get", "over"} : Moves("status", pc, None)
  BY Finishing DEF NextPc, EmitAnswer
<1>2. thread["status"].pc = "answer"
  BY DEF EmitAnswer, At
<1>3. thread["status"].job \in Checks /\ thread["status"].answer \in Answers
  BY <1>2 DEF Fits, RestPCs, Own, Thread
<1>. QED
  BY <1>1, <1>2, <1>3 DEF EmitAnswer

-----------------------------------------------------------------------------
(* Types.                                                                  *)

CheckerTyped ==
    /\ checker \in Checker /\ (checker.id = None => ~checker.busy /\ ~checker.open)
    /\ connected \in Checks \cup {None}
    /\ inbox \in Seq(Signal) /\ applied \in (Checks \X Checks) \cup {None}
    /\ dropped \subseteq Checks

LEMMA TypedInit == Init => Typed /\ CheckerTyped
<1>. SUFFICES ASSUME Init PROVE Typed /\ CheckerTyped
  OBVIOUS
<1>1. /\ \A pc \in PCs : Idle(pc) \in Thread /\ Idle(pc).pc = pc /\ Idle(pc).job = None
      /\ {"login", "get"} \subseteq PCs
  BY DEF Idle, Thread, Answers, PCs
<1>2. \A t \in Threads : thread[t] = Idle(IF t = "login" THEN "login" ELSE "get")
  BY DEF Init, RenameWorkerInit
<1>3. \A t \in Threads : Fits(t, thread[t])
  BY <1>1, <1>2 DEF Fits, PCsOf, RestPCs, Threads
<1>4. thread \in [Threads -> Thread]
  BY <1>1 DEF Init, RenameWorkerInit
<1>5. CheckerTyped
  BY DEF Init, CheckerTyped, Checker
<1>6. /\ running = TRUE /\ loginDone = FALSE /\ authed = FALSE /\ reauth = FALSE /\ recent = FALSE
      /\ lock = None /\ renames = <<>> /\ checks = <<>> /\ cancelled = FALSE /\ snapshot = {}
      /\ unnamed \subseteq Galleries /\ renamed = {} /\ requested = unnamed
  BY DEF Init, RenameWorkerInit
<1>7. Typed
  <2>1. renames \in Seq(Galleries \cup {None}) /\ checks \in Seq(Checks \cup {None})
    BY <1>6
  <2>. QED
    BY <1>3, <1>4, <1>6, <2>1, Zenon DEF Typed
<1>. QED
  BY <1>5, <1>7

LEMMA TypedNext == Typed /\ CheckerTyped /\ [Next]_vars => Typed' /\ CheckerTyped'
<1>. SUFFICES ASSUME Typed, CheckerTyped, [Next]_vars PROVE Typed' /\ CheckerTyped'
  OBVIOUS
<1>. /\ "login" \in Threads /\ "rename" \in Threads /\ "status" \in Threads
     /\ \A t \in Renamers : t \in Threads /\ Own(t) = Galleries
  BY DEF Threads, Renamers, Own
<1>0. \A t \in Threads : /\ thread[t] \in Thread /\ thread[t].pc \in PCsOf(t)
                         /\ thread[t].pc \in RestPCs => Job(t) = None
                         /\ thread[t].pc \notin RestPCs => Job(t) \in Own(t)
  BY DEF Typed, Fits, Job
<1>1. ASSUME NEW t \in Threads, Reauth(t) \/ Wake(t) \/ Relogin(t) \/ Release(t), UNCHANGED checkerVars
      PROVE  Typed' /\ CheckerTyped'
  <2>1. PICK pc \in PCs :
              /\ Moves(t, pc, Job(t))
              /\ \/ thread[t].pc = "reauth" /\ pc = "relogin"
                 \/ thread[t].pc = "relogin" /\ pc = "release"
                 \/ thread[t].pc = "release" /\ pc \in {"ask", GivesUp(t)}
                 \/ thread[t].pc \in {"reauth", "asleep"} /\ pc \in {"asleep", "ask", GivesUp(t)}
    BY <1>1, SessionSteps
  <2>2. pc \in PCsOf(t) /\ pc \notin RestPCs /\ thread[t].pc \notin RestPCs
    BY <2>1 DEF PCsOf, ToAsk, RestPCs, GivesUp, Threads
  <2>3. thread' \in [Threads -> Thread] /\ \A u \in Threads : Fits(u, thread'[u])
    BY <1>0, <2>1, <2>2, MovesFit
  <2>. QED
    BY <1>1, <2>3, SessionSteps DEF Typed, CheckerTyped, checkerVars, queueVars, tableVars
<1>2. ASSUME NEW t \in Renamers, FailsTo(t), thread[t].pc \notin RestPCs
      PROVE  thread' \in [Threads -> Thread] /\ \A u \in Threads : Fits(u, thread'[u])
  <2>1. CASE t = "login" /\ Moves(t, "next", None)
    <3>1. "next" \in PCsOf(t) /\ "next" \in RestPCs
      BY <2>1 DEF PCsOf, RestPCs
    <3>. QED
      BY <2>1, <3>1, MovesFit
  <2>2. CASE t = "rename" /\ Moves(t, "keep", Job(t))
    <3>1. "keep" \in PCsOf(t) /\ "keep" \notin RestPCs
      BY <2>2 DEF PCsOf, RestPCs
    <3>. QED
      BY <1>0, <1>2, <2>2, <3>1, MovesFit
  <2>. QED
    BY <1>2, <2>1, <2>2 DEF FailsTo
<1>3. ASSUME NEW t \in Threads, AskName(t), UNCHANGED checkerVars PROVE Typed' /\ CheckerTyped'
  <2>1. t \in Renamers /\ thread[t].pc \notin RestPCs /\ Job(t) \in Galleries
    BY <1>0, <1>3, AskSteps DEF RestPCs
  <2>2. thread' \in [Threads -> Thread] /\ \A u \in Threads : Fits(u, thread'[u])
    <3>1. CASE Moves(t, NextPc(t), None)
      <4>1. NextPc(t) \in PCsOf(t) /\ NextPc(t) \in RestPCs
        BY <2>1 DEF PCsOf, NextPc, Renamers, RestPCs
      <4>. QED
        BY <3>1, <4>1, MovesFit
    <3>2. CASE FailsTo(t)
      BY <1>2, <2>1, <3>2
    <3>3. CASE \E pc \in {"dead", "reauth"} : Moves(t, pc, Job(t))
      <4>1. \A pc \in {"dead", "reauth"} : pc \in PCsOf(t) /\ pc \notin RestPCs
        BY <2>1 DEF PCsOf, ToAsk, Renamers, RestPCs
      <4>. QED
        BY <2>1, <3>3, <4>1, MovesFit
    <3>. QED
      BY <1>3, <3>1, <3>2, <3>3, AskSteps
  <2>3. renamed' \subseteq Galleries /\ unnamed' \subseteq Galleries
    BY <1>3, <2>1, AskSteps DEF Typed
  <2>. QED
    BY <1>3, <2>2, <2>3, AskSteps DEF Typed, CheckerTyped, checkerVars, queueVars, lockVars
<1>4. ASSUME NEW t \in Threads, MarkDead(t), UNCHANGED checkerVars PROVE Typed' /\ CheckerTyped'
  <2>1. t \in Renamers /\ thread[t].pc \notin RestPCs /\ authed' \in BOOLEAN /\ FailsTo(t)
    BY <1>4, DeadSteps DEF RestPCs
  <2>. QED
    BY <1>2, <1>4, <2>1, DeadSteps DEF Typed, CheckerTyped, checkerVars, queueVars, lockVars, tableVars
<1>5. ASSUME Login \/ NextUnnamed \/ LoginOver, UNCHANGED checkerVars PROVE Typed' /\ CheckerTyped'
  <2>1. \/ Moves("login", "next", None)
        \/ \E g \in Galleries : Moves("login", "ask", g)
        \/ Moves("login", "over", None)
    BY <1>0, <1>5, LoginSteps DEF RestPCs
  <2>2. /\ {"next", "ask", "over"} \subseteq PCsOf("login") /\ {"next", "over"} \subseteq RestPCs
        /\ "ask" \notin RestPCs /\ Own("login") = Galleries
    BY DEF PCsOf, ToAsk, RestPCs, Own
  <2>3. thread' \in [Threads -> Thread] /\ \A u \in Threads : Fits(u, thread'[u])
    BY <2>1, <2>2, MovesFit
  <2>4. loginDone' \in BOOLEAN
    BY <1>5, LoginSteps DEF Typed
  <2>. QED
    BY <1>5, <2>3, <2>4, LoginSteps DEF Typed, CheckerTyped, checkerVars, queueVars, lockVars, tableVars
<1>6. ASSUME TakeRename \/ AwaitLogin \/ KeepForLater \/ Drain, UNCHANGED checkerVars
      PROVE  Typed' /\ CheckerTyped'
  <2>1. /\ {"get", "wait", "ask", "over", "drain"} \subseteq PCsOf("rename") /\ {"get", "over", "drain"} \subseteq RestPCs
        /\ "ask" \notin RestPCs /\ "wait" \notin RestPCs /\ "keep" \notin RestPCs /\ Own("rename") = Galleries
    BY DEF PCsOf, ToAsk, RestPCs, Own
  <2>2. \/ \E pc \in {"get", "over", "drain"} : Moves("rename", pc, None)
        \/ \E g \in Galleries : Moves("rename", "wait", g)
        \/ Moves("rename", "ask", Job("rename")) /\ Job("rename") \in Galleries
        \/ thread' = thread
    BY <1>0, <1>6, <2>1, RenameSteps
  <2>3. thread' \in [Threads -> Thread] /\ \A u \in Threads : Fits(u, thread'[u])
    <3>1. CASE thread' = thread
      BY <3>1 DEF Typed
    <3>. QED
      BY <2>1, <2>2, <3>1, MovesFit
  <2>4. renames \in Seq(Galleries \cup {None}) /\ unnamed \subseteq Galleries
    BY DEF Typed
  <2>5. renames' \in Seq(Galleries \cup {None})
    BY <1>6, <2>4, RenameSteps
  <2>6. unnamed' \subseteq Galleries
    <3>1. renames # <<>> => Head(renames) \in Galleries \cup {None}
      BY <2>4
    <3>2. thread["rename"].pc \in {"wait", "keep"} => Job("rename") \in Galleries
      BY <1>0, <2>1
    <3>. QED
      BY <1>6, <2>4, <3>1, <3>2, RenameSteps
  <2>. QED
    BY <1>6, <2>3, <2>5, <2>6, RenameSteps DEF Typed, CheckerTyped, checkerVars, lockVars
<1>7. ASSUME TakeCheck \/ AwaitLoginToCheck \/ AskStatus, UNCHANGED checkerVars PROVE Typed' /\ CheckerTyped'
  <2>1. /\ {"over", "wait", "ask", "answer", "reauth"} \subseteq PCsOf("status") /\ "over" \in RestPCs
        /\ \A pc \in {"wait", "ask", "answer", "reauth"} : pc \notin RestPCs
        /\ Own("status") = Checks
    BY DEF PCsOf, ToAsk, RestPCs, Own
  <2>2. \/ Moves("status", "over", None)
        \/ \E c \in Checks : Moves("status", "wait", c)
        \/ Job("status") \in Checks /\ \E pc \in {"ask", "answer", "reauth"} : Moves("status", pc, Job("status"))
    BY <1>0, <1>7, <2>1, StatusSteps
  <2>3. thread' \in [Threads -> Thread] /\ \A u \in Threads : Fits(u, thread'[u])
    BY <2>1, <2>2, MovesFit
  <2>4. checks' \in Seq(Checks \cup {None})
    <3>1. checks' = checks \/ (checks # <<>> /\ checks' = Tail(checks))
      BY <1>7, StatusSteps
    <3>. QED
      BY <3>1 DEF Typed
  <2>. QED
    BY <1>7, <2>3, <2>4, StatusSteps DEF Typed, CheckerTyped, checkerVars, lockVars, tableVars
<1>8. CASE EmitAnswer
  <2>1. /\ {"over", "get"} \subseteq PCsOf("status") /\ {"over", "get"} \subseteq RestPCs
    BY DEF PCsOf, RestPCs
  <2>2. thread' \in [Threads -> Thread] /\ \A u \in Threads : Fits(u, thread'[u])
    BY <1>8, <2>1, AnswerSteps, MovesFit
  <2>3. inbox' \in Seq(Signal)
    <3>1. CASE connected = None
      BY <1>8, <3>1, AnswerSteps DEF CheckerTyped
    <3>2. CASE connected # None
      <4>1. [check |-> Job("status"), answer |-> thread["status"].answer, to |-> connected] \in Signal
        BY <1>8, <3>2, AnswerSteps DEF Signal, Job, CheckerTyped
      <4>. QED
        BY <1>8, <3>2, <4>1, AnswerSteps DEF CheckerTyped
    <3>. QED
      BY <3>1, <3>2
  <2>. QED
    BY <1>8, <2>2, <2>3, AnswerSteps DEF Typed, CheckerTyped, lockVars, tableVars, queueVars
<1>9. CASE \E g \in Galleries : QueueRename(g) /\ UNCHANGED checkerVars
  BY <1>9 DEF QueueRename, Typed, CheckerTyped, checkerVars, lockVars
<1>10. CASE (Elapse \/ Stop) /\ UNCHANGED checkerVars
  <2>1. CheckerTyped'
    BY <1>10 DEF CheckerTyped, checkerVars
  <2>2. /\ running' \in BOOLEAN /\ recent' \in BOOLEAN
        /\ UNCHANGED <<loginDone, authed, snapshot, thread, reauth, lock, cancelled, tableVars>>
    BY <1>10 DEF Elapse, Stop, Typed, lockVars, queueVars
  <2>3. renames' \in Seq(Galleries \cup {None}) /\ checks' \in Seq(Checks \cup {None})
    <3>1. \/ renames' = renames /\ checks' = checks
          \/ renames' = Append(renames, None) /\ checks' = Append(checks, None)
      BY <1>10 DEF Elapse, Stop, queueVars
    <3>2. renames \in Seq(Galleries \cup {None}) /\ checks \in Seq(Checks \cup {None})
      BY DEF Typed
    <3>3. /\ Append(renames, None) \in Seq(Galleries \cup {None})
          /\ Append(checks, None) \in Seq(Checks \cup {None})
      BY <3>2, AppendProperties
    <3>. QED
      BY <3>1, <3>2, <3>3
  <2>. QED
    BY <2>1, <2>2, <2>3 DEF Typed, tableVars
<1>11. CASE \E c \in Checks : CheckGalleries(c)
  <2>1. PICK c \in Checks : CheckGalleries(c)
    BY <1>11
  <2>2. CheckerTyped'
    <3>1. checker' = [id |-> c, busy |-> TRUE, open |-> TRUE] /\ c # None
      BY <2>1, NoneAssumption DEF CheckGalleries
    <3>2. checker' \in Checker /\ checker'.id # None
      BY <3>1 DEF Checker
    <3>. QED
      BY <2>1, <3>2 DEF CheckGalleries, CheckerTyped
  <2>3. checks' \in Seq(Checks \cup {None})
    BY <2>1 DEF CheckGalleries, Typed
  <2>. QED
    BY <2>1, <2>2, <2>3 DEF CheckGalleries, Typed, lockVars, tableVars
<1>12. CASE CancelCheck
  <2>1. /\ checker.id \in Checks /\ [checker EXCEPT !.busy = FALSE] \in Checker
        /\ [checker EXCEPT !.busy = FALSE].id = checker.id
    BY <1>12 DEF CancelCheck, CheckerTyped, Checker
  <2>2. CheckerTyped'
    BY <1>12, <2>1, NoneAssumption DEF CancelCheck, CheckerTyped
  <2>. QED
    BY <1>12, <2>2 DEF CancelCheck, Typed, lockVars, tableVars
<1>13. CASE CloseDialog
  BY <1>13 DEF CloseDialog, Typed, CheckerTyped, Checker, workerVars, lockVars, queueVars, tableVars
<1>14. CASE TakeAnswer
  <2>1. PICK q \in Signal : q = Head(inbox)
    BY <1>14 DEF TakeAnswer, CheckerTyped
  <2>2. /\ UNCHANGED <<workerVars, dropped>> /\ inbox # <<>> /\ inbox' = Tail(inbox)
        /\ \/ UNCHANGED <<checker, connected, applied>>
           \/ /\ checker' = [checker EXCEPT !.busy = FALSE] /\ connected' = None
              /\ applied' \in {applied, <<q.check, q.to>>}
    BY <1>14, <2>1 DEF TakeAnswer
  <2>3. q.check \in Checks /\ q.to \in Checks /\ inbox' \in Seq(Signal)
    BY <2>2 DEF Signal, CheckerTyped
  <2>4. /\ [checker EXCEPT !.busy = FALSE] \in Checker
        /\ [checker EXCEPT !.busy = FALSE].id = checker.id
        /\ [checker EXCEPT !.busy = FALSE].open = checker.open
        /\ [checker EXCEPT !.busy = FALSE].busy = FALSE
    BY DEF CheckerTyped, Checker
  <2>5. CheckerTyped'
    <3>1. CASE UNCHANGED <<checker, connected, applied>>
      BY <2>2, <2>3, <3>1 DEF CheckerTyped
    <3>2. CASE /\ checker' = [checker EXCEPT !.busy = FALSE] /\ connected' = None
               /\ applied' \in {applied, <<q.check, q.to>>}
      BY <2>2, <2>3, <2>4, <3>2 DEF CheckerTyped
    <3>. QED
      BY <2>2, <3>1, <3>2
  <2>. QED
    BY <2>2, <2>5 DEF Typed, workerVars, lockVars, queueVars, tableVars
<1>15. CASE UNCHANGED vars
  BY <1>15 DEF vars, Typed, CheckerTyped, checkerVars, workerVars, lockVars, queueVars, tableVars
<1>. QED
  BY <1>1, <1>3, <1>4, <1>5, <1>6, <1>7, <1>8, <1>9, <1>10, <1>11, <1>12, <1>13, <1>14, <1>15
     DEF Next, WorkerStep, ThreadStep

\* The threads, the queues, the tables and the checkers have their types.
THEOREM RenamesTyped == Spec => []TypeOK
<1>1. Typed /\ CheckerTyped => TypeOK
  BY DEF Typed, CheckerTyped, TypeOK
<1>. QED
  BY <1>1, TypedInit, TypedNext, PTL DEF Spec

-----------------------------------------------------------------------------
(* No gallery is lost.                                                     *)

Accounted(g) == g \in renamed \/ g \in unnamed \/ InHand(g) \/ Queued(g)

LEMMA QueueMoves ==
  ASSUME Typed, NEW g
  PROVE  /\ renames # <<>> /\ renames' = Tail(renames) /\ Queued(g) => Queued(g)' \/ g = Head(renames)
         /\ \A x \in Galleries \cup {None} : renames' = Append(renames, x) /\ Queued(g) => Queued(g)'
         /\ \A x \in Galleries \cup {None} : renames' = Append(renames, x) /\ x = g => Queued(g)'
         /\ renames' = renames /\ Queued(g) => Queued(g)'
<1>. renames \in Seq(Galleries \cup {None}) /\ DOMAIN renames = 1 .. Len(renames) /\ Len(renames) \in Nat
  BY DEF Typed
<1>1. ASSUME renames # <<>>, renames' = Tail(renames), Queued(g), g # Head(renames) PROVE Queued(g)'
  <2>1. PICK i \in 1 .. Len(renames) : renames[i] = g
    BY <1>1 DEF Queued
  <2>2. /\ Head(renames) = renames[1] /\ Len(Tail(renames)) = Len(renames) - 1
        /\ DOMAIN Tail(renames) = 1 .. Len(renames) - 1
        /\ \A k \in 1 .. Len(renames) - 1 : Tail(renames)[k] = renames[k + 1]
    BY <1>1
  <2>3. i - 1 \in 1 .. Len(renames) - 1 /\ Tail(renames)[i - 1] = g
    BY <1>1, <2>1, <2>2
  <2>. QED
    BY <1>1, <2>2, <2>3 DEF Queued
<1>2. ASSUME NEW x \in Galleries \cup {None}, renames' = Append(renames, x) PROVE (Queued(g) \/ x = g) => Queued(g)'
  <2>1. /\ DOMAIN Append(renames, x) = 1 .. Len(renames) + 1
        /\ Append(renames, x)[Len(renames) + 1] = x
        /\ \A i \in 1 .. Len(renames) : Append(renames, x)[i] = renames[i]
    BY AppendProperties
  <2>. QED
    BY <1>2, <2>1 DEF Queued
<1>. QED
  BY <1>1, <1>2 DEF Queued

LEMMA AccountedNext ==
  ASSUME Typed, CheckerTyped, RenamesAccounted, [Next]_vars
  PROVE  RenamesAccounted'
<1>. /\ "login" \in Threads /\ "rename" \in Threads /\ "status" \in Threads
  BY DEF Threads
<1>0. \A g \in requested : Accounted(g) /\ g \in Galleries /\ g # None
  BY NoneAssumption DEF RenamesAccounted, Accounted, Typed
<1>a. ASSUME \A g \in requested' : Accounted(g)' PROVE RenamesAccounted'
  BY <1>a DEF RenamesAccounted, Accounted
<1>b. ASSUME NEW t \in Threads, NEW pc, Moves(t, pc, Job(t))
      PROVE  \A g : InHand(g) => InHand(g)'
  <2>1. Job("rename")' = Job("rename")
    BY <1>b DEF Moves, Job
  <2>. QED
    BY <2>1 DEF InHand
<1>c. ASSUME NEW t \in Threads, t # "rename", NEW pc, NEW job, Moves(t, pc, job)
      PROVE  \A g : InHand(g) => InHand(g)'
  BY <1>c DEF Moves, Job, InHand
<1>1. ASSUME NEW t \in Threads, Reauth(t) \/ Wake(t) \/ Relogin(t) \/ Release(t) PROVE RenamesAccounted'
  <2>1. UNCHANGED <<renames, tableVars>> /\ \E pc \in PCs : Moves(t, pc, Job(t))
    BY <1>1, SessionSteps DEF queueVars
  <2>2. \A g : InHand(g) => InHand(g)'
    BY <1>b, <2>1
  <2>. QED
    BY <1>0, <1>a, <2>1, <2>2, QueueMoves DEF Accounted, tableVars
<1>2. ASSUME NEW t \in Renamers, FailsTo(t) PROVE \A g : InHand(g) => InHand(g)'
  <2>1. t \in Threads
    BY DEF Renamers, Threads
  <2>2. CASE t = "login" /\ Moves(t, "next", None)
    BY <1>c, <2>1, <2>2
  <2>3. CASE t = "rename" /\ Moves(t, "keep", Job(t))
    BY <1>b, <2>1, <2>3
  <2>. QED
    BY <1>2, <2>2, <2>3 DEF FailsTo
<1>3. ASSUME NEW t \in Threads, AskName(t) PROVE RenamesAccounted'
  <2>1. t \in Renamers /\ requested' = requested /\ renames' = renames
    BY <1>3, AskSteps DEF queueVars
  <2>2. CASE /\ renamed' = renamed \cup {Job(t)} /\ unnamed' = unnamed \ {Job(t)}
             /\ Moves(t, NextPc(t), None)
    <3>1. ASSUME NEW g \in requested PROVE Accounted(g)'
      <4>1. CASE g = Job(t)
        BY <2>2, <4>1 DEF Accounted
      <4>2. CASE g # Job(t)
        <5>1. InHand(g) => InHand(g)'
          <6>1. CASE t = "rename"
            BY <4>2, <6>1 DEF InHand
          <6>2. CASE t # "rename"
            BY <1>c, <2>2, <6>2
          <6>. QED
            BY <6>1, <6>2
        <5>. QED
          BY <1>0, <2>1, <2>2, <4>2, <5>1, QueueMoves DEF Accounted
      <4>. QED
        BY <4>1, <4>2
    <3>. QED
      BY <1>a, <2>1, <3>1
  <2>3. CASE renamed' \in {renamed, renamed \cup {Job(t)}} /\ unnamed' = unnamed /\ FailsTo(t)
    BY <1>0, <1>2, <1>a, <2>1, <2>3, QueueMoves DEF Accounted
  <2>4. CASE /\ renamed' = renamed /\ unnamed' = unnamed
             /\ \E pc \in {"dead", "reauth"} : Moves(t, pc, Job(t))
    <3>1. \A g : InHand(g) => InHand(g)'
      BY <1>b, <2>4
    <3>. QED
      BY <1>0, <1>a, <2>1, <2>4, <3>1, QueueMoves DEF Accounted
  <2>. QED
    BY <1>3, <2>2, <2>3, <2>4, AskSteps
<1>4. ASSUME NEW t \in Threads, MarkDead(t) PROVE RenamesAccounted'
  <2>1. t \in Renamers /\ FailsTo(t) /\ UNCHANGED <<renames, tableVars>>
    BY <1>4, DeadSteps DEF queueVars
  <2>. QED
    BY <1>0, <1>2, <1>a, <2>1, QueueMoves DEF Accounted, tableVars
<1>5. ASSUME \/ Login \/ NextUnnamed \/ LoginOver \/ TakeCheck \/ AwaitLoginToCheck \/ AskStatus \/ EmitAnswer
      PROVE  RenamesAccounted'
  <2>1. UNCHANGED <<renames, tableVars>> /\ \E t \in {"login", "status"} : \E pc, job : Moves(t, pc, job)
    BY <1>5, LoginSteps, StatusSteps, AnswerSteps DEF queueVars
  <2>2. \A g : InHand(g) => InHand(g)'
    BY <1>c, <2>1
  <2>. QED
    BY <1>0, <1>a, <2>1, <2>2, QueueMoves DEF Accounted, tableVars
<1>6. ASSUME TakeRename \/ AwaitLogin \/ KeepForLater \/ Drain PROVE RenamesAccounted'
  <2>0. renamed' = renamed /\ requested' = requested
    BY <1>6, RenameSteps
  <2>. SUFFICES ASSUME NEW g \in requested PROVE Accounted(g)'
    BY <1>a, <2>0
  <2>1. thread["rename"].pc \in {"get", "drain"} => ~InHand(g)
    BY <1>0 DEF InHand, Job, Typed, Fits, RestPCs
  <2>2. CASE thread["rename"].pc = "get" /\ renames # <<>> /\ renames' = Tail(renames) /\ unnamed' = unnamed
             /\ \/ Head(renames) = None /\ Moves("rename", "over", None)
                \/ Head(renames) \in Galleries /\ Moves("rename", "wait", Head(renames))
    <3>1. Head(renames) = g => InHand(g)'
      BY <1>0, <2>2 DEF InHand, Job, Moves
    <3>2. g \in renamed \/ g \in unnamed \/ Queued(g)
      BY <1>0, <2>1, <2>2 DEF Accounted
    <3>. QED
      BY <2>0, <2>2, <3>1, <3>2, QueueMoves DEF Accounted
  <2>3. CASE thread["rename"].pc \in {"wait", "keep"} /\ renames' = renames
             /\ \/ Moves("rename", "ask", Job("rename")) /\ unnamed' = unnamed
                \/ unnamed' = unnamed \cup {Job("rename")}
    <3>1. InHand(g) => InHand(g)' \/ g \in unnamed'
      BY <2>3 DEF InHand, Job, Moves
    <3>. QED
      BY <1>0, <2>0, <2>3, <3>1, QueueMoves DEF Accounted
  <2>4. CASE thread["rename"].pc = "drain"
             /\ \/ renames' = renames /\ unnamed' = unnamed
                \/ /\ renames # <<>> /\ renames' = Tail(renames)
                   /\ unnamed' = unnamed \cup ({Head(renames)} \ {None})
    <3>1. g \in renamed \/ g \in unnamed \/ Queued(g)
      BY <1>0, <2>1, <2>4 DEF Accounted
    <3>. QED
      BY <1>0, <2>0, <2>4, <3>1, QueueMoves DEF Accounted
  <2>. QED
    BY <1>6, <2>2, <2>3, <2>4, RenameSteps
<1>7. ASSUME NEW g \in Galleries, QueueRename(g) PROVE RenamesAccounted'
  <2>1. UNCHANGED <<thread, unnamed, renamed>> /\ requested' = requested \cup {g} /\ renames' = Append(renames, g)
    BY <1>7 DEF QueueRename
  <2>2. \A k \in requested : Accounted(k)'
    BY <1>0, <2>1, QueueMoves DEF Accounted, InHand, Job
  <2>3. Accounted(g)'
    BY <2>1, QueueMoves DEF Accounted
  <2>. QED
    BY <1>a, <2>1, <2>2, <2>3
<1>8. ASSUME Elapse \/ Stop PROVE RenamesAccounted'
  <2>1. UNCHANGED <<thread, tableVars>> /\ renames' \in {renames, Append(renames, None)}
    BY <1>8 DEF Elapse, Stop, queueVars
  <2>. QED
    BY <1>0, <1>a, <2>1, QueueMoves DEF Accounted, InHand, Job, tableVars
<1>9. ASSUME \/ \E c \in Checks : CheckGalleries(c)
             \/ CancelCheck \/ CloseDialog \/ TakeAnswer \/ UNCHANGED vars
      PROVE  RenamesAccounted'
  <2>1. UNCHANGED <<thread, renames, tableVars>>
    BY <1>9 DEF CheckGalleries, CancelCheck, CloseDialog, TakeAnswer, vars, workerVars, queueVars
  <2>. QED
    BY <1>0, <1>a, <2>1, QueueMoves DEF Accounted, InHand, Job, tableVars
<1>. QED
  BY <1>1, <1>3, <1>4, <1>5, <1>6, <1>7, <1>8, <1>9 DEF Next, WorkerStep, ThreadStep

\* Whatever the host answers and whenever the worker is stopped, a gallery that
\* waits for its name is in the table, in the queue or in the thread's hands.
THEOREM NoRenameIsLost == Spec => []RenamesAccounted
<1>1. Init => RenamesAccounted
  BY DEF Init, RenameWorkerInit, RenamesAccounted
<1>2. Typed /\ CheckerTyped /\ RenamesAccounted /\ [Next]_vars => RenamesAccounted'
  BY AccountedNext
<1>. QED
  BY <1>1, <1>2, TypedInit, TypedNext, PTL DEF Spec

-----------------------------------------------------------------------------
(* One login at a time.  Before the first login is over nobody else asks   *)
(* the host; after it, reauth_in_progress is up while a thread logs in.    *)

Relogs == {"relogin", "release"}

LoginInv ==
    /\ ~loginDone => /\ thread["rename"].pc \in {"get", "wait", "over"}
                     /\ thread["status"].pc \in {"get", "wait", "answer", "over"}
    /\ thread["login"].pc = "login" => ~loginDone
    /\ \A t \in Threads : thread[t].pc \in Relogs => reauth
    /\ \A t, u \in Threads : thread[t].pc \in Relogs /\ thread[u].pc \in Relogs => t = u

\* A move that is no part of logging in again.
LEMMA PlainMove ==
  ASSUME Typed, LoginInv, NEW t \in Threads, NEW pc, NEW job, Moves(t, pc, job),
         pc \notin Relogs \cup {"login"}, reauth' = reauth, loginDone' = loginDone,
         ~loginDone => t = "login" \/ pc \in {"get", "wait", "over"} \/ (t = "status" /\ pc = "answer")
  PROVE  LoginInv'
<1>. "login" \in Threads /\ "rename" \in Threads /\ "status" \in Threads
  BY DEF Threads
<1>1. thread'[t].pc = pc /\ \A u \in Threads : u # t => thread'[u].pc = thread[u].pc
  BY DEF Moves
<1>2. ~loginDone' => /\ thread'["rename"].pc \in {"get", "wait", "over"}
                     /\ thread'["status"].pc \in {"get", "wait", "answer", "over"}
  BY <1>1 DEF LoginInv
<1>3. thread'["login"].pc = "login" => ~loginDone'
  BY <1>1 DEF LoginInv
<1>4. \A u \in Threads : thread'[u].pc \in Relogs => reauth' /\ thread[u].pc \in Relogs
  BY <1>1 DEF LoginInv
<1>. QED
  BY <1>2, <1>3, <1>4 DEF LoginInv

LEMMA LoginInvNext ==
  ASSUME Typed, CheckerTyped, LoginInv, [Next]_vars
  PROVE  LoginInv'
<1>. /\ "login" \in Threads /\ "rename" \in Threads /\ "status" \in Threads
  BY DEF Threads
<1>1. ASSUME NEW t \in Threads, Reauth(t) \/ Wake(t) \/ Relogin(t) \/ Release(t) PROVE LoginInv'
  <2>1. PICK pc \in PCs :
              /\ Moves(t, pc, Job(t))
              /\ \/ thread[t].pc = "reauth" /\ pc = "relogin" /\ ~reauth /\ reauth' = TRUE
                 \/ thread[t].pc = "relogin" /\ pc = "release" /\ reauth' = reauth
                 \/ thread[t].pc = "release" /\ pc \in {"ask", GivesUp(t)} /\ reauth' = FALSE
                 \/ thread[t].pc \in {"reauth", "asleep"} /\ pc \in {"asleep", "ask", GivesUp(t)}
                    /\ reauth' = reauth
    BY <1>1, SessionSteps
  <2>2. loginDone' = loginDone
    BY <1>1, SessionSteps
  <2>3. thread[t].pc \in ToAsk
    BY <2>1 DEF ToAsk
  <2>4. ~loginDone => t = "login"
    BY <2>3 DEF LoginInv, ToAsk, Threads
  <2>5. thread'[t].pc = pc /\ \A u \in Threads : u # t => thread'[u].pc = thread[u].pc
    BY <2>1 DEF Moves
  <2>6. /\ ~loginDone' => /\ thread'["rename"].pc \in {"get", "wait", "over"}
                          /\ thread'["status"].pc \in {"get", "wait", "answer", "over"}
        /\ thread'["login"].pc = "login" => ~loginDone'
    BY <2>1, <2>2, <2>4, <2>5 DEF LoginInv, GivesUp
  <2>7. CASE thread[t].pc = "reauth" /\ pc = "relogin" /\ ~reauth /\ reauth' = TRUE
    <3>1. \A u \in Threads : thread'[u].pc \in Relogs => u = t
      BY <2>5, <2>7 DEF LoginInv
    <3>. QED
      BY <2>6, <2>7, <3>1 DEF LoginInv
  <2>8. CASE thread[t].pc = "relogin" /\ pc = "release" /\ reauth' = reauth
    <3>1. \A u \in Threads : thread'[u].pc \in Relogs => u = t
      BY <2>5, <2>8 DEF LoginInv, Relogs
    <3>2. reauth
      BY <2>8 DEF LoginInv, Relogs
    <3>. QED
      BY <2>6, <2>8, <3>1, <3>2 DEF LoginInv
  <2>9. CASE thread[t].pc = "release" /\ pc \in {"ask", GivesUp(t)} /\ reauth' = FALSE
    <3>1. \A u \in Threads : thread'[u].pc \notin Relogs
      BY <2>5, <2>9 DEF LoginInv, Relogs, GivesUp
    <3>. QED
      BY <2>6, <3>1 DEF LoginInv
  <2>10. CASE thread[t].pc \in {"reauth", "asleep"} /\ pc \in {"asleep", "ask", GivesUp(t)} /\ reauth' = reauth
    <3>1. \A u \in Threads : thread'[u].pc \in Relogs => thread[u].pc \in Relogs
      BY <2>5, <2>10 DEF Relogs, GivesUp
    <3>. QED
      BY <2>6, <2>10, <3>1 DEF LoginInv
  <2>. QED
    BY <2>1, <2>7, <2>8, <2>9, <2>10
<1>2. ASSUME NEW t \in Renamers, FailsTo(t), reauth' = reauth, loginDone' = loginDone,
             thread[t].pc \in {"ask", "dead"}
      PROVE  LoginInv'
  <2>1. t \in Threads /\ (~loginDone => t = "login")
    BY <1>2 DEF LoginInv, Renamers, Threads
  <2>2. {"next", "keep"} \cap (Relogs \cup {"login"}) = {}
    BY DEF Relogs
  <2>. QED
    BY <1>2, <2>1, <2>2, PlainMove DEF FailsTo
<1>3. ASSUME NEW t \in Threads, AskName(t) PROVE LoginInv'
  <2>1. t \in Renamers /\ thread[t].pc = "ask" /\ reauth' = reauth /\ loginDone' = loginDone
    BY <1>3, AskSteps DEF lockVars
  <2>2. ~loginDone => t = "login"
    BY <2>1 DEF LoginInv, Renamers, Threads
  <2>3. NextPc(t) \notin Relogs \cup {"login"} /\ {"dead", "reauth"} \cap (Relogs \cup {"login"}) = {}
    BY DEF Relogs, NextPc
  <2>4. CASE FailsTo(t)
    BY <1>2, <2>1, <2>4
  <2>5. CASE \E pc \in {NextPc(t), "dead", "reauth"} : \E job : Moves(t, pc, job)
    BY <2>1, <2>2, <2>3, <2>5, PlainMove
  <2>. QED
    BY <1>3, <2>4, <2>5, AskSteps
<1>4. ASSUME NEW t \in Threads, MarkDead(t) PROVE LoginInv'
  BY <1>2, <1>4, DeadSteps DEF lockVars
<1>5. ASSUME Login \/ NextUnnamed \/ LoginOver PROVE LoginInv'
  <2>1. reauth' = reauth
    BY <1>5, LoginSteps DEF lockVars
  <2>2. {"next", "ask", "over"} \cap (Relogs \cup {"login"}) = {}
    BY DEF Relogs
  <2>3. CASE loginDone' = loginDone /\ \E pc \in {"next", "ask"} : \E job : Moves("login", pc, job)
    BY <2>1, <2>2, <2>3, PlainMove
  <2>4. CASE loginDone' = TRUE /\ Moves("login", "over", None)
    <3>1. thread'["login"].pc = "over" /\ \A u \in Threads : u # "login" => thread'[u].pc = thread[u].pc
      BY <2>4 DEF Moves
    <3>2. \A u \in Threads : thread'[u].pc \in Relogs => thread[u].pc \in Relogs
      BY <2>2, <3>1
    <3>. QED
      BY <2>1, <2>4, <3>1, <3>2 DEF LoginInv
  <2>. QED
    BY <1>5, <2>3, <2>4, LoginSteps
<1>6. ASSUME TakeRename \/ AwaitLogin \/ KeepForLater \/ Drain PROVE LoginInv'
  <2>1. reauth' = reauth /\ loginDone' = loginDone
    BY <1>6, RenameSteps DEF lockVars
  <2>2. {"get", "over", "wait", "ask", "drain"} \cap (Relogs \cup {"login"}) = {}
    BY DEF Relogs
  <2>3. CASE \E pc \in {"get", "over", "wait"} : \E job : Moves("rename", pc, job)
    BY <2>1, <2>2, <2>3, PlainMove
  <2>4. CASE loginDone /\ \E pc \in {"ask", "drain"} : \E job : Moves("rename", pc, job)
    BY <2>1, <2>2, <2>4, PlainMove
  <2>5. CASE thread' = thread
    BY <2>1, <2>5 DEF LoginInv
  <2>6. thread["rename"].pc \in {"keep", "drain"} => loginDone
    BY DEF LoginInv
  <2>. QED
    BY <1>6, <2>3, <2>4, <2>5, <2>6, RenameSteps
<1>7. ASSUME TakeCheck \/ AwaitLoginToCheck \/ AskStatus \/ EmitAnswer PROVE LoginInv'
  <2>1. reauth' = reauth /\ loginDone' = loginDone
    BY <1>7, StatusSteps, AnswerSteps DEF lockVars
  <2>2. {"over", "get", "wait", "answer", "ask", "reauth"} \cap (Relogs \cup {"login"}) = {}
    BY DEF Relogs
  <2>3. thread["status"].pc = "ask" => loginDone
    BY DEF LoginInv
  <2>4. \E pc \in {"over", "get", "wait", "answer", "ask", "reauth"} : \E job :
           Moves("status", pc, job) /\ (pc \in {"ask", "reauth"} => loginDone)
    BY <1>7, <2>3, StatusSteps, AnswerSteps
  <2>. QED
    BY <2>1, <2>2, <2>4, PlainMove
<1>8. ASSUME \/ \E g \in Galleries : QueueRename(g)
             \/ Elapse \/ Stop \/ (\E c \in Checks : CheckGalleries(c))
             \/ CancelCheck \/ CloseDialog \/ TakeAnswer \/ UNCHANGED vars
      PROVE  LoginInv'
  <2>1. UNCHANGED <<thread, reauth, loginDone>>
    BY <1>8 DEF QueueRename, Elapse, Stop, CheckGalleries, CancelCheck, CloseDialog, TakeAnswer, vars,
                workerVars, lockVars
  <2>. QED
    BY <2>1 DEF LoginInv
<1>. QED
  BY <1>1, <1>3, <1>4, <1>5, <1>6, <1>7, <1>8 DEF Next, WorkerStep, ThreadStep

\* "only one re-auth happens at a time", and none beside the first login.
THEOREM OneThreadLogsIn == Spec => []OneLogin
<1>1. Init => LoginInv
  <2>1. ASSUME Init PROVE \A t \in Threads : thread[t].pc = IF t = "login" THEN "login" ELSE "get"
    BY <2>1 DEF Init, RenameWorkerInit, Idle
  <2>. QED
    BY <2>1 DEF LoginInv, Relogs, Threads, Init, RenameWorkerInit
<1>2. Typed /\ CheckerTyped /\ LoginInv /\ [Next]_vars => LoginInv'
  BY LoginInvNext
<1>3. Typed /\ LoginInv => OneLogin
  <2>. SUFFICES ASSUME Typed, LoginInv, NEW t \in Threads, NEW u \in Threads,
                       \E p, q \in {"login", "relogin"} : At(t, p) /\ At(u, q)
                PROVE  t = u
    BY DEF OneLogin
  <2>1. thread[t].pc \in {"login", "relogin"} /\ thread[u].pc \in {"login", "relogin"}
    BY DEF At
  <2>2. \A w \in Threads : thread[w].pc = "login" => w = "login" /\ ~loginDone
    BY DEF Typed, Fits, PCsOf, ToAsk, Threads, LoginInv
  <2>3. \A w \in Threads : thread[w].pc = "relogin" /\ ~loginDone => w = "login"
    BY DEF LoginInv, Threads
  <2>. QED
    BY <2>1, <2>2, <2>3 DEF LoginInv, Relogs
<1>. QED
  BY <1>1, <1>2, <1>3, TypedInit, TypedNext, PTL DEF Spec

-----------------------------------------------------------------------------
(* Cancelled checks.  Checks are numbered as they are asked for, and every *)
(* one under way, in an answer or stored was asked by then.                *)

\* Check c had been asked for when the one numbered id was the last.
Asked(c, id) == id # None /\ c <= id

CancelInv ==
    /\ connected \in {None, checker.id}
    /\ \A i \in 1 .. Len(checks) : checks[i] # None => Asked(checks[i], checker.id)
    /\ thread["status"].job # None => Asked(thread["status"].job, checker.id)
    /\ \A i \in 1 .. Len(inbox) : Asked(inbox[i].to, checker.id) /\ inbox[i].check <= inbox[i].to
    /\ applied # None => /\ applied[1] <= applied[2] /\ Asked(applied[2], checker.id) /\ applied[2] \notin dropped
                         /\ applied[2] = checker.id => ~checker.busy
    /\ \A c \in dropped : Asked(c, checker.id)

\* The threads that rename leave the check and its answers alone.
LEMMA OthersLeaveChecks ==
  ASSUME Typed, CancelInv, UNCHANGED <<checks, checkerVars>>,
         thread'["status"].job \in {thread["status"].job, None}
  PROVE  CancelInv'
  BY DEF CancelInv, Asked, checkerVars

LEMMA CancelInvNext ==
  ASSUME Typed, CheckerTyped, CancelInv, [Next]_vars
  PROVE  CancelInv'
<1>. /\ "login" \in Threads /\ "rename" \in Threads /\ "status" \in Threads
     /\ checks \in Seq(Checks \cup {None}) /\ inbox \in Seq(Signal)
     /\ Len(checks) \in Nat /\ Len(inbox) \in Nat
  BY DEF Threads, Typed, CheckerTyped
<1>0. \A c \in Checks : c \in Nat /\ c # None
  BY ChecksAssumption, NoneAssumption
<1>1. ASSUME NEW t \in Threads,
             Reauth(t) \/ Wake(t) \/ Relogin(t) \/ Release(t) \/ AskName(t) \/ MarkDead(t), UNCHANGED checkerVars
      PROVE  CancelInv'
  <2>1. checks' = checks
    BY <1>1, SessionSteps, AskSteps, DeadSteps DEF queueVars
  <2>2. \E pc, job : Moves(t, pc, job) /\ (t = "status" => job = Job(t))
    <3>1. CASE Reauth(t) \/ Wake(t) \/ Relogin(t) \/ Release(t)
      BY <3>1, SessionSteps
    <3>2. CASE AskName(t) \/ MarkDead(t)
      <4>1. t # "status" /\ (FailsTo(t) \/ \E pc, job : Moves(t, pc, job))
        BY <3>2, AskSteps, DeadSteps DEF Renamers
      <4>. QED
        BY <4>1 DEF FailsTo
    <3>. QED
      BY <1>1, <3>1, <3>2
  <2>3. thread'["status"].job = thread["status"].job
    BY <2>2 DEF Moves, Job
  <2>. QED
    BY <1>1, <2>1, <2>3, OthersLeaveChecks
<1>2. ASSUME Login \/ NextUnnamed \/ LoginOver \/ TakeRename \/ AwaitLogin \/ KeepForLater \/ Drain,
             UNCHANGED checkerVars
      PROVE  CancelInv'
  <2>1. checks' = checks
    BY <1>2, LoginSteps, RenameSteps DEF queueVars
  <2>2. thread' = thread \/ \E t \in {"login", "rename"} : \E pc, job : Moves(t, pc, job)
    BY <1>2, LoginSteps, RenameSteps
  <2>3. thread'["status"].job = thread["status"].job
    BY <2>2 DEF Moves
  <2>. QED
    BY <1>2, <2>1, <2>3, OthersLeaveChecks
<1>3. ASSUME TakeCheck \/ AwaitLoginToCheck \/ AskStatus, UNCHANGED checkerVars PROVE CancelInv'
  <2>1. CASE /\ checks # <<>> /\ checks' = Tail(checks)
             /\ \/ Head(checks) = None /\ Moves("status", "over", None)
                \/ Head(checks) \in Checks /\ Moves("status", "wait", Head(checks))
    <3>1. /\ Head(checks) = checks[1] /\ 1 \in 1 .. Len(checks) /\ Len(Tail(checks)) = Len(checks) - 1
          /\ \A i \in 1 .. Len(checks) - 1 : Tail(checks)[i] = checks[i + 1] /\ i + 1 \in 1 .. Len(checks)
      BY <2>1
    <3>2. thread'["status"].job = Head(checks)
      BY <2>1 DEF Moves
    <3>3. checker' = checker /\ UNCHANGED <<connected, inbox, applied, dropped>>
      BY <1>3 DEF checkerVars
    <3>4. \A i \in 1 .. Len(checks') : checks'[i] # None => Asked(checks'[i], checker.id)
      BY <2>1, <3>1 DEF CancelInv
    <3>5. thread'["status"].job # None => Asked(thread'["status"].job, checker.id)
      BY <3>1, <3>2 DEF CancelInv
    <3>. QED
      BY <3>3, <3>4, <3>5 DEF CancelInv, Asked
  <2>2. CASE checks' = checks /\ \E pc : Moves("status", pc, Job("status"))
    BY <1>3, <2>2, OthersLeaveChecks DEF Moves, Job
  <2>. QED
    BY <1>3, <2>1, <2>2, StatusSteps
<1>4. ASSUME \/ \E g \in Galleries : QueueRename(g)
             \/ Elapse
             \/ UNCHANGED workerVars,
             UNCHANGED checkerVars
      PROVE  CancelInv'
  <2>1. UNCHANGED <<thread, checks>>
    BY <1>4 DEF QueueRename, Elapse, workerVars, queueVars
  <2>. QED
    BY <1>4, <2>1, OthersLeaveChecks
<1>5. ASSUME Stop, UNCHANGED checkerVars PROVE CancelInv'
  <2>1. checks' = Append(checks, None) /\ thread' = thread
    BY <1>5 DEF Stop
  <2>2. /\ Len(checks') = Len(checks) + 1 /\ checks'[Len(checks) + 1] = None
        /\ \A i \in 1 .. Len(checks) : checks'[i] = checks[i]
    BY <2>1, AppendProperties
  <2>3. \A i \in 1 .. Len(checks') : checks'[i] # None => Asked(checks'[i], checker.id)
    BY <2>2 DEF CancelInv
  <2>. QED
    BY <1>5, <2>1, <2>3 DEF CancelInv, Asked, checkerVars
<1>6. ASSUME NEW c \in Checks, CheckGalleries(c) PROVE CancelInv'
  <2>1. /\ checker' = [id |-> c, busy |-> TRUE, open |-> TRUE] /\ connected' = c
        /\ checks' = Append(checks, c) /\ UNCHANGED <<thread, inbox, applied, dropped>>
        /\ c = IF checker.id = None THEN 1 ELSE checker.id + 1
    BY <1>6 DEF CheckGalleries, IsNext
  <2>2. checker'.id = c /\ checker.id \in Checks \cup {None}
    BY <2>1 DEF CheckerTyped, Checker
  <2>3. \A d \in Checks : Asked(d, checker.id) => Asked(d, checker'.id) /\ d # c
    <3>1. CASE checker.id = None
      BY <3>1 DEF Asked
    <3>2. CASE checker.id # None
      <4>1. c = checker.id + 1 /\ checker.id \in Nat /\ c # None
        BY <1>0, <2>1, <2>2, <3>2
      <4>2. \A d \in Checks : d <= checker.id => d <= c /\ d # c
        BY <1>0, <4>1
      <4>. QED
        BY <2>2, <4>1, <4>2 DEF Asked
    <3>. QED
      BY <3>1, <3>2
  <2>4. Asked(c, checker'.id)
    BY <1>0, <2>2 DEF Asked
  <2>5. /\ Len(checks') = Len(checks) + 1 /\ checks'[Len(checks) + 1] = c
        /\ \A i \in 1 .. Len(checks) : checks'[i] = checks[i] /\ checks[i] \in Checks \cup {None}
    BY <2>1, AppendProperties, ElementOfSeq
  <2>6. \A i \in 1 .. Len(checks') : checks'[i] # None => Asked(checks'[i], checker'.id)
    <3>1. ASSUME NEW i \in 1 .. Len(checks'), checks'[i] # None PROVE Asked(checks'[i], checker'.id)
      <4>1. CASE i = Len(checks) + 1
        BY <2>4, <2>5, <4>1 DEF Asked
      <4>2. CASE i \in 1 .. Len(checks)
        <5>1. checks[i] \in Checks /\ Asked(checks[i], checker.id) /\ checks'[i] = checks[i]
          BY <2>5, <3>1, <4>2 DEF CancelInv
        <5>. QED
          BY <2>3, <5>1 DEF Asked
      <4>. QED
        BY <2>5, <3>1, <4>1, <4>2
    <3>. QED
      BY <3>1 DEF Asked
  <2>7. thread["status"].job # None => thread["status"].job \in Checks
    BY DEF Typed, Fits, Own
  <2>8. thread'["status"].job # None => Asked(thread["status"].job, checker'.id)
    BY <2>1, <2>3, <2>7 DEF CancelInv, Asked
  <2>9. \A i \in 1 .. Len(inbox) : inbox[i].to \in Checks
    <3>. SUFFICES ASSUME NEW i \in 1 .. Len(inbox) PROVE inbox[i].to \in Checks
      OBVIOUS
    <3>1. inbox[i] \in Signal
      BY ElementOfSeq
    <3>. QED
      BY <3>1 DEF Signal
  <2>10. \A i \in 1 .. Len(inbox') : Asked(inbox[i].to, checker'.id) /\ inbox'[i].check <= inbox'[i].to
    BY <2>1, <2>3, <2>9 DEF CancelInv, Asked
  <2>11. applied' # None => /\ applied'[1] <= applied'[2] /\ Asked(applied'[2], checker'.id) /\ applied'[2] \notin dropped'
                            /\ applied'[2] # checker'.id
    BY <2>1, <2>2, <2>3 DEF CancelInv, CheckerTyped, Asked
  <2>12. \A d \in dropped' : Asked(d, checker'.id)
    BY <2>1, <2>3 DEF CancelInv, CheckerTyped, Asked
  <2>. QED
    BY <2>1, <2>2, <2>6, <2>8, <2>10, <2>11, <2>12 DEF CancelInv, Asked
<1>7. ASSUME CancelCheck PROVE CancelInv'
  <2>1. /\ checker.busy /\ checker' = [checker EXCEPT !.busy = FALSE] /\ dropped' = dropped \cup {checker.id}
        /\ connected' = None /\ UNCHANGED <<thread, checks, inbox, applied>>
    BY <1>7 DEF CancelCheck
  <2>2. checker'.id = checker.id /\ checker'.busy = FALSE /\ checker.id \in Checks
    BY <2>1 DEF CheckerTyped, Checker
  <2>3. checker.id # None /\ checker.id <= checker.id
    BY <1>0, <2>2
  <2>. QED
    BY <2>1, <2>2, <2>3 DEF CancelInv, Asked
<1>8. ASSUME CloseDialog PROVE CancelInv'
  <2>1. /\ checker' = [checker EXCEPT !.open = FALSE] /\ connected' \in {connected, None}
        /\ UNCHANGED <<thread, checks, inbox, applied, dropped>>
    BY <1>8 DEF CloseDialog, workerVars, queueVars
  <2>2. checker'.id = checker.id /\ checker'.busy = checker.busy
    BY <2>1 DEF CheckerTyped, Checker
  <2>. QED
    BY <2>1, <2>2 DEF CancelInv, Asked
<1>9. ASSUME EmitAnswer PROVE CancelInv'
  <2>1. /\ UNCHANGED <<checker, connected, applied, dropped, checks>>
        /\ thread["status"].job \in Checks /\ \E pc : Moves("status", pc, None)
    BY <1>9, AnswerSteps DEF queueVars
  <2>2. thread'["status"].job = None
    BY <2>1 DEF Moves
  <2>3. \A i \in 1 .. Len(inbox') : Asked(inbox'[i].to, checker.id) /\ inbox'[i].check <= inbox'[i].to
    <3>1. CASE connected = None
      BY <1>9, <3>1, AnswerSteps DEF CancelInv
    <3>2. CASE connected # None
      <4>1. PICK s : s = [check |-> Job("status"), answer |-> thread["status"].answer, to |-> connected]
        OBVIOUS
      <4>2. inbox' = Append(inbox, s) /\ s.check = thread["status"].job /\ s.to = connected
        BY <1>9, <3>2, <4>1, AnswerSteps DEF Job
      <4>3. s \in Signal
        BY <1>9, <3>2, <4>1, AnswerSteps DEF Signal, Job, CheckerTyped
      <4>4. Asked(s.to, checker.id) /\ s.check <= s.to
        BY <1>0, <2>1, <3>2, <4>2 DEF CancelInv, Asked, CheckerTyped
      <4>5. /\ Len(inbox') = Len(inbox) + 1 /\ inbox'[Len(inbox) + 1] = s
            /\ \A i \in 1 .. Len(inbox) : inbox'[i] = inbox[i]
        BY <4>2, <4>3, AppendProperties
      <4>. QED
        BY <4>4, <4>5 DEF CancelInv
    <3>. QED
      BY <3>1, <3>2
  <2>. QED
    BY <2>1, <2>2, <2>3 DEF CancelInv, Asked
<1>10. ASSUME TakeAnswer PROVE CancelInv'
  <2>1. /\ inbox # <<>> /\ inbox' = Tail(inbox) /\ UNCHANGED <<thread, checks, dropped>>
    BY <1>10 DEF TakeAnswer, workerVars, queueVars
  <2>2. PICK s \in Signal : s = Head(inbox)
    BY <2>1
  <2>3. \/ UNCHANGED <<checker, connected, applied>>
        \/ /\ s.to = connected /\ checker' = [checker EXCEPT !.busy = FALSE] /\ connected' = None
           /\ applied' = applied \/ (s.to \notin dropped /\ applied' = <<s.check, s.to>>)
    BY <1>10, <2>2 DEF TakeAnswer
  <2>4. /\ Head(inbox) = inbox[1] /\ 1 \in 1 .. Len(inbox) /\ Len(Tail(inbox)) = Len(inbox) - 1
        /\ \A i \in 1 .. Len(inbox) - 1 : Tail(inbox)[i] = inbox[i + 1] /\ i + 1 \in 1 .. Len(inbox)
    BY <2>1
  <2>5. Asked(s.to, checker.id) /\ s.check <= s.to /\ s.to \in Checks
    BY <2>2, <2>4 DEF CancelInv, Signal
  <2>6. \A i \in 1 .. Len(inbox') : Asked(inbox'[i].to, checker.id) /\ inbox'[i].check <= inbox'[i].to
    BY <2>1, <2>4 DEF CancelInv
  <2>7. checker'.id = checker.id /\ (checker' = checker \/ checker'.busy = FALSE)
    BY <2>3 DEF CheckerTyped, Checker
  <2>8. CASE UNCHANGED <<checker, connected, applied>>
    BY <2>1, <2>6, <2>8 DEF CancelInv, Asked
  <2>9. CASE /\ checker'.busy = FALSE /\ connected' = None
             /\ applied' = applied \/ (s.to \notin dropped /\ applied' = <<s.check, s.to>>)
    <3>1. applied' # None => /\ applied'[1] <= applied'[2] /\ Asked(applied'[2], checker.id) /\ applied'[2] \notin dropped
      BY <2>5, <2>9 DEF CancelInv
    <3>. QED
      BY <2>1, <2>6, <2>7, <2>9, <3>1 DEF CancelInv, Asked
  <2>. QED
    BY <2>3, <2>8, <2>9 DEF CheckerTyped, Checker
<1>. QED
  BY <1>1, <1>2, <1>3, <1>4, <1>5, <1>6, <1>7, <1>8, <1>9, <1>10 DEF Next, WorkerStep, ThreadStep, vars

\* _on_cancel: the results of a cancelled check are not stored, however answer
\* and click race, but by the checker of a later check.
THEOREM CancelledStaysCancelled == Spec => []CancelHolds
<1>1. Init => CancelInv
  BY DEF Init, RenameWorkerInit, CancelInv, Idle, Threads
<1>2. Typed /\ CheckerTyped /\ CancelInv /\ [Next]_vars => CancelInv'
  BY CancelInvNext
<1>3. CheckerTyped /\ CancelInv => CancelHolds
  <2>. SUFFICES ASSUME CheckerTyped, CancelInv, applied # None, applied[1] \in dropped
                PROVE  applied[1] < applied[2]
    BY DEF CancelHolds
  <2>1. applied[1] \in Nat /\ applied[2] \in Nat
    BY ChecksAssumption DEF CheckerTyped
  <2>2. applied[1] <= applied[2] /\ applied[1] # applied[2]
    BY DEF CancelInv
  <2>. QED
    BY <2>1, <2>2
<1>. QED
  BY <1>1, <1>2, <1>3, TypedInit, TypedNext, PTL DEF Spec
=============================================================================
