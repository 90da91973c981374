----------------------------- MODULE ForumProofs -----------------------------
(***************************************************************************)
(* Forum posts: the types, and what the rows say of the forum.  A post     *)
(* waits for one thing at a time, a job in the queue, the worker's job or  *)
(* an answer to it (Apart); each of these knows what its row has recorded  *)
(* and what the forum shows (JobsSound, AnswersSound), and a row at rest   *)
(* what was last sent (PostsSound).  The invariant holds for every mode,   *)
(* policy and number of posts and bodies.                                  *)
(***************************************************************************)
EXTENDS ForumPosting, SequenceTheorems, TLAPS

Answers == {"failed", "fetched", "posted", "edited"}
Signals == [kind : Answers, post : Posts, text : Texts]
             \cup [kind : {"upload", "template_edit"}, post : {0}, text : {NoText}]
Statuses == {"none", "queued", "updating", "posted", "stale", "failed"}
Row == [status : Statuses, stored : Texts, known : BOOLEAN, modes : SUBSET Modes]
Shown == [text : Texts, sent : Texts, misread : BOOLEAN]
Dead == [NoJob EXCEPT !.kind = "dead"]

ForumTypes ==
    /\ policy \in Policies
    /\ body \in Bodies
    /\ posts \in [Posts -> Row]
    /\ forum \in [Posts -> Shown]
    /\ jobs \in Seq(Jobs)
    /\ worker \in Jobs \cup {NoJob, Dead}
    /\ paused \in BOOLEAN
    /\ signals \in Seq(Signals)

\* What texts there are.
LEMMA TextTypes ==
  ASSUME body \in Bodies
  PROVE  /\ NoText \in Texts /\ ~NoText.edited
         /\ Rendered \in Texts /\ Rendered.edited = FALSE
         /\ Foreign \in Texts /\ Foreign.of = Theirs /\ Rendered.of # Theirs
         /\ \A t \in Texts : /\ Edited(t) \in Texts /\ Edited(t).edited /\ Edited(t).of = t.of
                             /\ [t EXCEPT !.of = body] \in Texts
                             /\ t.edited => Edited(t) = t
<1>1. body \in 0 .. Theirs /\ 0 \in 0 .. Theirs /\ Theirs \in 0 .. Theirs /\ body # Theirs
  BY ForumAssumption DEF Bodies, Theirs
<1>2. \A t \in Texts : /\ Edited(t) \in Texts /\ Edited(t).edited /\ Edited(t).of = t.of
                       /\ [t EXCEPT !.of = body] \in Texts
                       /\ t.edited => Edited(t) = t
  BY <1>1 DEF Texts, Edited
<1>. QED
  BY <1>1, <1>2 DEF Texts, NoText, Rendered, Foreign

\* Whether a job is one, and a signal the worker's answer to one.
IsJob(j) == j.kind \in {"post", "edit", "fetch"}
IsAnswer(s) == s.kind \in Answers

LEMMA JobFields ==
  /\ \A j \in Jobs : IsJob(j) /\ j.post \in Posts /\ j.text \in Texts /\ j.base \in Texts
  /\ ~IsJob(NoJob) /\ ~IsJob(Dead)
  BY DEF Jobs, IsJob, NoJob, Dead, Job

LEMMA SignalFields ==
  \A s \in Signals : /\ IsAnswer(s) => s.post \in Posts /\ s.text \in Texts
                     /\ s.kind \in {"upload", "template_edit"} <=> ~IsAnswer(s)
  BY DEF Signals, IsAnswer, Answers

LEMMA RowFields ==
  \A r \in Row : /\ r.status \in Statuses /\ r.stored \in Texts /\ r.known \in BOOLEAN
                 /\ r.modes \subseteq Modes
                 /\ \A s \in Statuses : [r EXCEPT !.status = s] \in Row
                 /\ \A s \in Statuses : [r EXCEPT !.status = s, !.known = TRUE] \in Row
  BY DEF Row

-----------------------------------------------------------------------------
\* What the plan of an update is.
LEMMA PlanTypes ==
  ASSUME body \in Bodies, NEW mode \in Modes, NEW stored \in Texts, NEW live \in Texts
  PROVE  /\ Plan(mode, stored, live).action \in {"edit", "noop", "skip"}
         /\ Plan(mode, stored, live).text \in Texts
         /\ Plan(mode, stored, live).action = "noop" => mode = "surgical"
         /\ mode = "whole" /\ policy = "skip_alert" /\ Plan(mode, stored, live).action = "edit"
              => stored = live /\ Plan(mode, stored, live).text = Rendered
<1>1. Rendered \in Texts /\ NoText \in Texts /\ [live EXCEPT !.of = body] \in Texts
  BY TextTypes
<1>2. CASE mode = "surgical"
  BY <1>1, <1>2 DEF Plan
<1>3. CASE mode # "surgical" /\ (stored = live \/ policy = "overwrite")
  BY <1>1, <1>3 DEF Plan
<1>4. CASE mode # "surgical" /\ ~(stored = live \/ policy = "overwrite")
  BY <1>1, <1>4 DEF Plan
<1>. QED
  BY <1>2, <1>3, <1>4

\* What OnRegenerated makes of the rows.
Marked == [p \in Posts |-> IF Has(p, {"posted"}) THEN [posts[p] EXCEPT !.status = "stale"] ELSE posts[p]]

\* What an answer makes of its row.
Answered(r, s) ==
    CASE s.kind = "failed" -> [r EXCEPT !.status = "failed"]
      [] s.kind = "fetched" -> [r EXCEPT !.status = "posted", !.stored = s.text, !.known = TRUE]
      [] s.kind = "posted" -> [r EXCEPT !.status = "posted", !.known = TRUE]
      [] s.kind = "edited" -> [r EXCEPT !.status = "posted"]

LEMMA AnsweredFields ==
  ASSUME NEW r \in Row, NEW s \in Signals, IsAnswer(s)
  PROVE  /\ Answered(r, s) \in Row
         /\ s.kind = "failed" => Answered(r, s) = [r EXCEPT !.status = "failed"]
         /\ s.kind = "fetched" =>
              Answered(r, s) = [r EXCEPT !.status = "posted", !.stored = s.text, !.known = TRUE]
         /\ s.kind = "posted" => Answered(r, s) = [r EXCEPT !.status = "posted", !.known = TRUE]
         /\ s.kind = "edited" => Answered(r, s) = [r EXCEPT !.status = "posted"]
<1>1. s.kind \in {"failed", "fetched", "posted", "edited"} /\ s.text \in Texts
  BY SignalFields DEF IsAnswer, Answers
<1>2. CASE s.kind = "failed"
  BY <1>2 DEF Answered, Row, Statuses
<1>3. CASE s.kind = "fetched"
  BY <1>1, <1>3 DEF Answered, Row, Statuses
<1>4. CASE s.kind = "posted"
  BY <1>4 DEF Answered, Row, Statuses
<1>5. CASE s.kind = "edited"
  BY <1>5 DEF Answered, Row, Statuses
<1>. QED
  BY <1>1, <1>2, <1>3, <1>4, <1>5

\* The worker's answer to the job it has.
LEMMA AnswerType ==
  ASSUME ForumTypes, IsJob(worker), NEW kind \in Answers, NEW t \in Texts, Answer(kind, t)
  PROVE  /\ worker' = NoJob /\ signals' \in Seq(Signals) /\ Signal(kind, worker.post, t) \in Signals
         /\ worker \in Jobs
         /\ signals' = Append(signals, Signal(kind, worker.post, t))
<1>1. worker \in Jobs /\ worker.post \in Posts
  BY JobFields DEF ForumTypes
<1>2. Signal(kind, worker.post, t) \in Signals
  BY <1>1 DEF Signal, Signals
<1>. QED
  BY <1>1, <1>2 DEF Answer, ForumTypes

\* What the worker's answer says, and what the forum has by then.
Told(kind, t) ==
    \/ /\ worker.kind \in {"post", "edit"} /\ forum' = [forum EXCEPT ![worker.post] = OnForum(worker.text)]
       /\ kind \in {"failed", IF worker.kind = "post" THEN "posted" ELSE "edited"}
    \/ /\ worker.kind = "fetch" /\ kind = "fetched" /\ t = forum[worker.post].text
       /\ forum' = [forum EXCEPT ![worker.post] = OnForum(forum[worker.post].text)]
    \/ kind = "failed" /\ forum' = forum
    \/ /\ worker.kind = "edit" /\ kind = "edited"
       /\ forum' = [forum EXCEPT ![worker.post].misread = TRUE]
    \/ /\ worker.kind = "post" /\ kind = "posted"
       /\ forum' = [forum EXCEPT ![worker.post].text = Foreign, ![worker.post].misread = TRUE]

\* The steps of the worker, by what they do.
LEMMA WorkersAnswer ==
  ASSUME ForumTypes, Succeed \/ Fetch \/ Refuse \/ Misread
  PROVE  /\ IsJob(worker) /\ worker \in Jobs /\ worker.post \in Posts /\ worker' = NoJob
         /\ policy' = policy /\ body' = body /\ posts' = posts /\ jobs' = jobs
         /\ \E kind \in Answers, t \in Texts : Answer(kind, t) /\ Told(kind, t)
<1>1. IsJob(worker)
  BY DEF Succeed, Fetch, Refuse, Misread, Busy, IsJob
<1>2. worker \in Jobs /\ worker.post \in Posts /\ worker.text \in Texts
  BY <1>1, JobFields DEF ForumTypes
<1>3. CASE Succeed
  <2>1. PICK heard \in BOOLEAN :
           Answer(IF ~heard THEN "failed" ELSE IF worker.kind = "post" THEN "posted" ELSE "edited", worker.text)
    BY <1>3 DEF Succeed
  <2>2. /\ worker.kind \in {"post", "edit"}
        /\ forum' = [forum EXCEPT ![worker.post] = OnForum(worker.text)]
    BY <1>3 DEF Succeed, Busy
  <2>. QED
    BY <1>1, <1>2, <2>1, <2>2 DEF Answer, Answers, Told
<1>4. CASE Fetch
  <2>1. forum[worker.post] \in Shown
    BY <1>2 DEF ForumTypes
  <2>2. forum[worker.post].text \in Texts
    BY <2>1 DEF Shown
  <2>. QED
    BY <1>1, <1>2, <1>4, <2>2 DEF Answer, Answers, Fetch, Busy, Told
<1>5. CASE Refuse \/ Misread
  <2>1. NoText \in Texts
    BY TextTypes DEF ForumTypes
  <2>. QED
    BY <1>1, <1>2, <1>5, <2>1 DEF Answer, Answers, Refuse, Misread, Busy, Told
<1>. QED
  BY <1>3, <1>4, <1>5

\* The controller's steps, by the row they change and the job they give.
EnqueuedRow == NewPost("queued", Rendered)

LEMMA EnqueueTypes ==
  ASSUME ForumTypes, NEW p \in Posts
  PROVE  /\ EnqueuedRow \in Row /\ Job("post", p, Rendered, NoText) \in Jobs
         /\ Job("fetch", p, NoText, NoText) \in Jobs
         /\ \A t, u \in Texts : Job("edit", p, t, u) \in Jobs
         /\ Marked \in [Posts -> Row]
<1>1. Rendered \in Texts /\ NoText \in Texts
  BY TextTypes DEF ForumTypes
<1>2. Marked \in [Posts -> Row]
  BY RowFields DEF Marked, ForumTypes, Statuses
<1>. QED
  BY <1>1, <1>2 DEF EnqueuedRow, NewPost, Row, Statuses, Job, Jobs

\* What an update may do to its post: only mark it or leave it, or give an edit.
LetBe(p, r) ==
    /\ jobs' = jobs /\ r.status \in {"stale", "posted"} /\ r.stored = posts[p].stored
    /\ r.status = "posted" => "surgical" \in r.modes

Edits(p, r) ==
    /\ posts[p].known /\ r.status = "updating"
    /\ jobs' = Append(jobs, Job("edit", p, r.stored, forum[p].text))
    /\ policy = "skip_alert" /\ r.modes \subseteq {"whole"}
         => posts[p].stored = forum[p].text /\ ~r.stored.edited

LEMMA UpdateKinds ==
  ASSUME ForumTypes, NEW p \in Posts, UpdatePost(p)
  PROVE  /\ posts[p].status \in {"stale", "posted", "failed"}
         /\ UNCHANGED <<policy, body, forum, worker, paused, signals>>
         /\ \E r \in Row : /\ posts' = [posts EXCEPT ![p] = r]
                           /\ r.known = posts[p].known /\ posts[p].modes \subseteq r.modes
                           /\ LetBe(p, r) \/ Edits(p, r)
<1>1. posts[p] \in Row /\ forum[p] \in Shown /\ posts \in [Posts -> Row]
  BY DEF ForumTypes
<1>2. posts[p].stored \in Texts /\ forum[p].text \in Texts
  BY <1>1 DEF Row, Shown
<1>3. posts[p].status \in {"stale", "posted", "failed"} /\ UNCHANGED <<policy, body, forum, worker, paused, signals>>
  BY DEF UpdatePost, Has
<1>4. CASE posts' = [posts EXCEPT ![p].status = "stale"] /\ jobs' = jobs
  <2>. DEFINE r == [posts[p] EXCEPT !.status = "stale"]
  <2>1. r \in Row /\ r.status = "stale" /\ r.stored = posts[p].stored /\ r.modes = posts[p].modes
        /\ r.known = posts[p].known
    BY <1>1 DEF Row, Statuses
  <2>2. posts' = [posts EXCEPT ![p] = r]
    BY <1>4
  <2>. HIDE DEF r
  <2>. QED
    BY <1>3, <1>4, <2>1, <2>2 DEF LetBe
<1>5. ASSUME NEW mode \in Modes, NEW plan, plan = Plan(mode, posts[p].stored, forum[p].text),
             posts[p].known,
             LET planned == [posts EXCEPT ![p].modes = @ \cup {mode}]
             IN  IF plan.action = "edit"
                 THEN /\ posts' = [planned EXCEPT ![p].status = "updating", ![p].stored = plan.text]
                      /\ jobs' = Append(jobs, Job("edit", p, plan.text, forum[p].text))
                 ELSE /\ posts' = [planned EXCEPT ![p].status =
                                     IF plan.action = "noop" THEN "posted" ELSE "stale"]
                      /\ jobs' = jobs
      PROVE  \E r \in Row : /\ posts' = [posts EXCEPT ![p] = r]
                            /\ r.known = posts[p].known /\ posts[p].modes \subseteq r.modes
                            /\ LetBe(p, r) \/ Edits(p, r)
  <2>1. /\ plan.action \in {"edit", "noop", "skip"} /\ plan.text \in Texts
        /\ plan.action = "noop" => mode = "surgical"
        /\ mode = "whole" /\ policy = "skip_alert" /\ plan.action = "edit"
              => posts[p].stored = forum[p].text /\ plan.text = Rendered
    BY <1>2, <1>5, PlanTypes DEF ForumTypes
  <2>2. CASE plan.action = "edit"
    <3>. DEFINE r == [posts[p] EXCEPT !.modes = @ \cup {mode}, !.status = "updating", !.stored = plan.text]
    <3>1. r \in Row /\ r.status = "updating" /\ r.stored = plan.text /\ r.modes = posts[p].modes \cup {mode}
          /\ r.known = posts[p].known
      BY <1>1, <2>1 DEF Row, Statuses
    <3>2. posts' = [posts EXCEPT ![p] = r]
      BY <1>1, <1>5, <2>2
    <3>3. ~Rendered.edited
      BY TextTypes DEF ForumTypes
    <3>4. jobs' = Append(jobs, Job("edit", p, r.stored, forum[p].text))
      BY <1>5, <2>2, <3>1
    <3>. HIDE DEF r
    <3>5. Edits(p, r)
      BY <1>5, <2>1, <2>2, <3>1, <3>3, <3>4 DEF Edits
    <3>. QED
      BY <3>1, <3>2, <3>5
  <2>3. CASE plan.action # "edit"
    <3>. DEFINE st == IF plan.action = "noop" THEN "posted" ELSE "stale"
                r == [posts[p] EXCEPT !.modes = @ \cup {mode}, !.status = st]
    <3>1. r \in Row /\ r.status = st /\ r.stored = posts[p].stored /\ r.modes = posts[p].modes \cup {mode}
          /\ r.known = posts[p].known
      BY <1>1, <2>1 DEF Row, Statuses
    <3>2. posts' = [posts EXCEPT ![p] = r] /\ jobs' = jobs
      BY <1>1, <1>5, <2>3
    <3>. HIDE DEF r
    <3>3. LetBe(p, r)
      BY <2>1, <3>1, <3>2 DEF LetBe
    <3>. QED
      BY <3>1, <3>2, <3>3
  <2>. QED
    BY <2>2, <2>3
<1>6. CASE posts[p].known /\ \E mode \in Modes :
             LET plan == Plan(mode, posts[p].stored, forum[p].text)
                 planned == [posts EXCEPT ![p].modes = @ \cup {mode}]
             IN  IF plan.action = "edit"
                 THEN /\ posts' = [planned EXCEPT ![p].status = "updating", ![p].stored = plan.text]
                      /\ jobs' = Append(jobs, Job("edit", p, plan.text, forum[p].text))
                 ELSE /\ posts' = [planned EXCEPT ![p].status =
                                     IF plan.action = "noop" THEN "posted" ELSE "stale"]
                      /\ jobs' = jobs
  BY <1>3, <1>5, <1>6
<1>. QED
  BY <1>4, <1>6 DEF UpdatePost

\* What a signal makes of rows and jobs.
LEMMA HandleKinds ==
  ASSUME ForumTypes, Handle
  PROVE  /\ signals # <<>> /\ signals' = Tail(signals) /\ Head(signals) \in Signals
         /\ UNCHANGED <<policy, body, forum, worker, paused>>
         /\ \/ /\ ~IsAnswer(Head(signals)) /\ posts' = Marked /\ jobs' = jobs
            \/ /\ ~IsAnswer(Head(signals))
               /\ \E p \in Posts : /\ posts[p].status = "none"
                                   /\ posts' = [Marked EXCEPT ![p] = EnqueuedRow]
                                   /\ jobs' = Append(jobs, Job("post", p, Rendered, NoText))
            \/ /\ IsAnswer(Head(signals)) /\ jobs' = jobs
               /\ posts' = [posts EXCEPT ![Head(signals).post] = Answered(@, Head(signals))]
<1>. DEFINE s == Head(signals)
<1>1. s \in Signals /\ signals # <<>> /\ signals' = Tail(signals)
  BY DEF Handle, ForumTypes
<1>2. UNCHANGED <<policy, body, forum, worker, paused>>
  BY DEF Handle
<1>3. IF s.kind \in {"upload", "template_edit"} THEN OnRegenerated(s.kind) ELSE OnAnswer(s)
  BY DEF Handle
<1>. HIDE DEF s
<1>4. s.kind \in {"upload", "template_edit"} <=> ~IsAnswer(s)
  BY <1>1, SignalFields
<1>5. CASE IsAnswer(s)
  BY <1>1, <1>2, <1>3, <1>4, <1>5 DEF OnAnswer, Answered, s
<1>6. CASE OnRegenerated(s.kind) /\ ~IsAnswer(s)
  <2>1. CASE \E p \in Posts : NextPost(p) /\ EnqueuePost(p, Marked)
    BY <1>1, <1>2, <1>6, <2>1 DEF EnqueuePost, EnqueuedRow, NextPost, Has, s
  <2>2. CASE posts' = Marked /\ jobs' = jobs
    BY <1>1, <1>2, <1>6, <2>2 DEF s
  <2>. QED
    BY <1>6, <2>1, <2>2 DEF OnRegenerated, Marked
<1>. QED
  BY <1>3, <1>4, <1>5, <1>6

\* Every step keeps the types.
LEMMA ForumTypesNext == ForumTypes /\ [ForumNext]_forumVars => ForumTypes'
<1>. SUFFICES ASSUME ForumTypes, [ForumNext]_forumVars PROVE ForumTypes'
  OBVIOUS
<1>. /\ posts \in [Posts -> Row] /\ forum \in [Posts -> Shown] /\ jobs \in Seq(Jobs)
     /\ signals \in Seq(Signals) /\ \A p \in Posts : posts[p] \in Row /\ forum[p] \in Shown
  BY DEF ForumTypes
<1>1. CASE \E p \in Posts : PostNow(p)
  <2>1. PICK p \in Posts : PostNow(p)
    BY <1>1
  <2>2. /\ posts' = [posts EXCEPT ![p] = EnqueuedRow]
        /\ jobs' = Append(jobs, Job("post", p, Rendered, NoText))
        /\ UNCHANGED <<policy, body, forum, worker, paused, signals>>
    BY <2>1 DEF PostNow, EnqueuePost, EnqueuedRow
  <2>3. EnqueuedRow \in Row /\ Job("post", p, Rendered, NoText) \in Jobs
    BY EnqueueTypes
  <2>. QED
    BY <2>2, <2>3 DEF ForumTypes
<1>2. CASE \E p \in Posts : OnboardPost(p)
  <2>1. PICK p \in Posts : OnboardPost(p)
    BY <1>2
  <2>2. [posts[p] EXCEPT !.status = "queued"] \in Row
    BY RowFields DEF Statuses
  <2>3. [forum[p] EXCEPT !.text = Foreign] \in Shown
    <3>1. Foreign \in Texts
      BY TextTypes DEF ForumTypes
    <3>. QED
      BY <3>1 DEF Shown
  <2>4. Job("fetch", p, NoText, NoText) \in Jobs
    BY EnqueueTypes
  <2>. QED
    BY <2>1, <2>2, <2>3, <2>4 DEF OnboardPost, ForumTypes
<1>3. CASE \E p \in Posts : UpdatePost(p)
  <2>1. PICK p \in Posts : UpdatePost(p)
    BY <1>3
  <2>2. PICK r \in Row : /\ posts' = [posts EXCEPT ![p] = r]
                         /\ LetBe(p, r) \/ Edits(p, r)
    BY <2>1, UpdateKinds
  <2>3. UNCHANGED <<policy, body, forum, worker, paused, signals>>
    BY <2>1, UpdateKinds
  <2>4. posts' \in [Posts -> Row]
    BY <2>2
  <2>5. jobs' \in Seq(Jobs)
    <3>1. r.stored \in Texts /\ forum[p].text \in Texts
      BY RowFields DEF Shown
    <3>2. Job("edit", p, r.stored, forum[p].text) \in Jobs
      BY <3>1, EnqueueTypes
    <3>. QED
      BY <2>2, <3>2 DEF LetBe, Edits
  <2>. QED
    BY <2>3, <2>4, <2>5 DEF ForumTypes
<1>4. CASE \E p \in Posts : EditByHand(p)
  <2>1. PICK p \in Posts : EditByHand(p)
    BY <1>4
  <2>2. [forum[p] EXCEPT !.text = Edited(@)] \in Shown
    <3>1. Edited(forum[p].text) \in Texts
      BY TextTypes DEF Shown, ForumTypes
    <3>. QED
      BY <3>1 DEF Shown
  <2>. QED
    BY <2>1, <2>2 DEF EditByHand, ForumTypes
<1>5. CASE \E cause \in {"upload", "template_edit"} : Regenerate(cause)
  <2>1. PICK cause \in {"upload", "template_edit"} : Regenerate(cause)
    BY <1>5
  <2>2. Signal(cause, 0, NoText) \in Signals
    BY DEF Signal, Signals
  <2>3. body' \in Bodies
    BY <2>1, ForumAssumption DEF Regenerate, Bodies, ForumTypes
  <2>. QED
    BY <2>1, <2>2, <2>3 DEF Regenerate, ForumTypes
<1>6. CASE Handle
  <2>1. /\ signals' \in Seq(Signals) /\ Head(signals) \in Signals
        /\ UNCHANGED <<policy, body, forum, worker, paused>>
    <3>1. /\ signals # <<>> /\ signals' = Tail(signals) /\ Head(signals) \in Signals
          /\ UNCHANGED <<policy, body, forum, worker, paused>>
      BY <1>6, HandleKinds
    <3>. QED
      BY <3>1
  <2>2. posts' \in [Posts -> Row] /\ jobs' \in Seq(Jobs)
    <3>1. CASE posts' = Marked /\ jobs' = jobs
      BY <3>1, RowFields DEF Marked, Statuses
    <3>2. CASE \E p \in Posts : /\ posts' = [Marked EXCEPT ![p] = EnqueuedRow]
                                /\ jobs' = Append(jobs, Job("post", p, Rendered, NoText))
      BY <3>2, EnqueueTypes
    <3>3. CASE /\ IsAnswer(Head(signals)) /\ jobs' = jobs
               /\ posts' = [posts EXCEPT ![Head(signals).post] = Answered(@, Head(signals))]
      BY <2>1, <3>3, AnsweredFields, SignalFields
    <3>. QED
      BY <1>6, <3>1, <3>2, <3>3, HandleKinds
  <2>. QED
    BY <2>1, <2>2 DEF ForumTypes
<1>7. CASE Take
  BY <1>7 DEF Take, ForumTypes, Dead
<1>8. CASE Succeed \/ Fetch \/ Refuse \/ Misread
  <2>1. /\ worker \in Jobs /\ worker.post \in Posts /\ worker' = NoJob
        /\ policy' = policy /\ body' = body /\ posts' = posts /\ jobs' = jobs
    BY <1>8, WorkersAnswer
  <2>2. signals' \in Seq(Signals)
    BY <1>8, WorkersAnswer, AnswerType
  <2>3. forum' \in [Posts -> Shown]
    <3>1. worker.text \in Texts /\ forum[worker.post].text \in Texts /\ Foreign \in Texts
      BY <2>1, JobFields, TextTypes DEF Shown, ForumTypes
    <3>2. OnForum(worker.text) \in Shown /\ OnForum(forum[worker.post].text) \in Shown
      BY <3>1 DEF Shown, OnForum
    <3>3. /\ [forum[worker.post] EXCEPT !.misread = TRUE] \in Shown
          /\ [forum[worker.post] EXCEPT !.text = Foreign, !.misread = TRUE] \in Shown
      BY <2>1, <3>1 DEF Shown
    <3>. QED
      BY <1>8, <2>1, <3>2, <3>3, WorkersAnswer DEF Told
  <2>4. paused' \in BOOLEAN
    BY <1>8 DEF Succeed, Fetch, Refuse, Misread, ForumTypes
  <2>. QED
    BY <2>1, <2>2, <2>3, <2>4 DEF ForumTypes
<1>9. CASE UNCHANGED forumVars
  BY <1>9 DEF forumVars, ForumTypes
<1>. QED
  BY <1>1, <1>2, <1>3, <1>4, <1>5, <1>6, <1>7, <1>8, <1>9 DEF ForumNext, ForumWork

LEMMA ForumTypesInit == ForumInit => ForumTypes
<1>. SUFFICES ASSUME ForumInit PROVE ForumTypes
  OBVIOUS
<1>1. 1 \in Bodies /\ body = 1
  BY ForumAssumption DEF Bodies, ForumInit
<1>2. NoText \in Texts
  BY <1>1, TextTypes
<1>3. /\ NewPost("none", NoText) \in Row
      /\ [text |-> NoText, sent |-> NoText, misread |-> FALSE] \in Shown
  BY <1>2 DEF NewPost, Row, Shown, Statuses
<1>. QED
  <2>1. jobs = <<>> /\ signals = <<>> /\ worker = NoJob /\ paused = FALSE
    BY DEF ForumInit
  <2>2. posts \in [Posts -> Row] /\ forum \in [Posts -> Shown]
    BY <1>3 DEF ForumInit
  <2>3. policy \in Policies
    BY DEF ForumInit
  <2>4. jobs \in Seq(Jobs) /\ signals \in Seq(Signals)
    BY <2>1
  <2>. QED
    BY <1>1, <2>1, <2>2, <2>3, <2>4, Zenon DEF ForumTypes

\* The posts, jobs and signals have their types.
THEOREM PostsTyped == ForumSpec => []ForumTypeOK
<1>1. ForumTypes => ForumTypeOK
  BY DEF ForumTypes, ForumTypeOK, Row, Statuses, Shown, Dead
<1>. QED
  BY <1>1, ForumTypesInit, ForumTypesNext, PTL DEF ForumSpec

-----------------------------------------------------------------------------
(* What is under way.  A post waits for one thing at a time: a job in the  *)
(* queue, the worker's job, or an answer to it.                            *)

InJobs(j) == \E k \in 1 .. Len(jobs) : jobs[k] = j
InSignals(s) == \E k \in 1 .. Len(signals) : signals[k] = s
Held(j) == InJobs(j) \/ worker = j

\* Jobs, the worker's job and answers are of different posts.
Apart(js, w, ss) ==
    /\ \A i, k \in 1 .. Len(js) : js[i].post = js[k].post => i = k
    /\ \A i, k \in 1 .. Len(ss) :
          IsAnswer(ss[i]) /\ IsAnswer(ss[k]) /\ ss[i].post = ss[k].post => i = k
    /\ \A k \in 1 .. Len(js) : IsJob(w) => js[k].post # w.post
    /\ \A i \in 1 .. Len(ss), k \in 1 .. Len(js) : IsAnswer(ss[i]) => ss[i].post # js[k].post
    /\ \A i \in 1 .. Len(ss) : IsAnswer(ss[i]) /\ IsJob(w) => ss[i].post # w.post

\* Updates of p were and are planned in mode whole, with the policy to skip.
Skips(p) == policy = "skip_alert" /\ posts[p].modes \subseteq {"whole"}
Waits(p) == posts[p].status \in {"queued", "updating"}

\* The forum shows what this program left there, but for an edit by hand, or
\* a post of somebody else that the row was led to name.
Near(p) == forum[p].text \in {forum[p].sent, Edited(forum[p].sent)}
Strange(p) == forum[p].text.of = Theirs /\ (Skips(p) => posts[p].stored.of # Theirs)

SoundJob(j) ==
    /\ Waits(j.post)
    /\ j.kind \in {"post", "edit"} => posts[j.post].stored = j.text
    /\ j.kind = "fetch" => ~posts[j.post].stored.edited
    /\ j.kind = "post" => j.text.of # Theirs
    /\ Skips(j.post) /\ j.kind = "edit" => j.base = forum[j.post].sent

SoundAnswer(s) ==
    /\ Waits(s.post)
    /\ s.kind = "fetched" => s.text = forum[s.post].sent
    /\ s.kind = "fetched" => Near(s.post)
    /\ s.kind = "posted" => Near(s.post) \/ Strange(s.post)
    /\ s.kind \in {"posted", "edited"} /\ ~forum[s.post].misread
         => posts[s.post].stored = forum[s.post].sent

SoundPost(p) ==
    /\ posts[p].status = "none" => ~posts[p].known /\ ~posts[p].stored.edited
    /\ posts[p].known => Near(p) \/ Strange(p)
    /\ Skips(p) /\ posts[p].stored.edited => posts[p].stored = forum[p].sent
    /\ "surgical" \notin posts[p].modes /\ ~forum[p].misread /\ posts[p].status = "posted"
         => posts[p].stored = forum[p].sent

JobsSound == \A j \in Jobs : Held(j) => SoundJob(j)
AnswersSound == \A s \in Signals : IsAnswer(s) /\ InSignals(s) => SoundAnswer(s)
PostsSound == \A p \in Posts : SoundPost(p)

ForumInv == Apart(jobs, worker, signals) /\ JobsSound /\ AnswersSound /\ PostsSound

\* Nothing is under way for p.
Clear(p) ==
    /\ \A j \in Jobs : Held(j) => j.post # p
    /\ \A s \in Signals : IsAnswer(s) /\ InSignals(s) => s.post # p

LEMMA Rests ==
  ASSUME ForumInv, NEW p \in Posts, ~Waits(p)
  PROVE  Clear(p)
  BY DEF ForumInv, JobsSound, AnswersSound, SoundJob, SoundAnswer, Clear

\* Sequences at one end.
LEMMA Appended ==
  ASSUME NEW S, NEW s \in Seq(S), NEW x \in S
  PROVE  /\ Append(s, x) \in Seq(S) /\ Len(Append(s, x)) = Len(s) + 1 /\ Len(s) \in Nat
         /\ Append(s, x)[Len(s) + 1] = x
         /\ \A k \in 1 .. Len(s) : Append(s, x)[k] = s[k]
  OBVIOUS

LEMMA TailOf ==
  ASSUME NEW S, NEW s \in Seq(S), s # <<>>
  PROVE  /\ Tail(s) \in Seq(S) /\ Len(Tail(s)) = Len(s) - 1 /\ Len(s) \in Nat \ {0}
         /\ Head(s) = s[1] /\ Head(s) \in S
         /\ \A k \in 1 .. Len(s) - 1 : Tail(s)[k] = s[k + 1]
  OBVIOUS

\* A job for a post nothing is under way for.
LEMMA ApartJob ==
  ASSUME ForumTypes, Apart(jobs, worker, signals), NEW j \in Jobs, Clear(j.post)
  PROVE  Apart(Append(jobs, j), worker, signals)
<1>. jobs \in Seq(Jobs) /\ signals \in Seq(Signals)
  BY DEF ForumTypes
<1>1. /\ Len(Append(jobs, j)) = Len(jobs) + 1 /\ Len(jobs) \in Nat
      /\ Append(jobs, j)[Len(jobs) + 1] = j
      /\ \A k \in 1 .. Len(jobs) : Append(jobs, j)[k] = jobs[k]
  BY Appended
<1>2. \A k \in 1 .. Len(jobs) : jobs[k].post # j.post
  BY DEF Clear, Held, InJobs
<1>3. IsJob(worker) => worker.post # j.post
  BY JobFields DEF Clear, Held, ForumTypes
<1>4. \A k \in 1 .. Len(signals) : IsAnswer(signals[k]) => signals[k].post # j.post
  BY DEF Clear, InSignals
<1>5. \A k \in 1 .. Len(jobs) + 1 : k = Len(jobs) + 1 \/ k \in 1 .. Len(jobs)
  BY <1>1
<1>. QED
  BY <1>1, <1>2, <1>3, <1>4, <1>5 DEF Apart

\* The worker takes a job.
LEMMA ApartTake ==
  ASSUME ForumTypes, Apart(jobs, worker, signals), jobs # <<>>, NEW w \in {Head(jobs), Dead}
  PROVE  Apart(Tail(jobs), w, signals)
<1>. jobs \in Seq(Jobs) /\ signals \in Seq(Signals)
  BY DEF ForumTypes
<1>1. /\ Len(Tail(jobs)) = Len(jobs) - 1 /\ Len(jobs) \in Nat \ {0} /\ Head(jobs) = jobs[1]
      /\ \A k \in 1 .. Len(jobs) - 1 : Tail(jobs)[k] = jobs[k + 1]
  BY TailOf
<1>2. IsJob(w) => w = jobs[1]
  BY <1>1, JobFields
<1>3. \A k \in 1 .. Len(jobs) - 1 : k + 1 \in 1 .. Len(jobs) /\ 1 \in 1 .. Len(jobs) /\ k + 1 # 1
  BY <1>1
<1>4. \A k \in 1 .. Len(jobs) - 1 : IsJob(w) => Tail(jobs)[k].post # w.post
  BY <1>1, <1>2, <1>3 DEF Apart
<1>5. \A i, k \in 1 .. Len(jobs) - 1 : Tail(jobs)[i].post = Tail(jobs)[k].post => i = k
  <2>1. ASSUME NEW i \in 1 .. Len(jobs) - 1, NEW k \in 1 .. Len(jobs) - 1,
               Tail(jobs)[i].post = Tail(jobs)[k].post
        PROVE  i = k
    <3>1. i + 1 = k + 1
      BY <1>1, <1>3, <2>1 DEF Apart
    <3>. QED
      BY <1>1, <3>1
  <2>. QED
    BY <2>1
<1>6. \A i \in 1 .. Len(signals), k \in 1 .. Len(jobs) - 1 :
         IsAnswer(signals[i]) => signals[i].post # Tail(jobs)[k].post
  BY <1>1, <1>3 DEF Apart
<1>7. \A i \in 1 .. Len(signals) : IsAnswer(signals[i]) /\ IsJob(w) => signals[i].post # w.post
  BY <1>1, <1>2, <1>3 DEF Apart
<1>8. \A i, k \in 1 .. Len(signals) :
          IsAnswer(signals[i]) /\ IsAnswer(signals[k]) /\ signals[i].post = signals[k].post => i = k
  BY DEF Apart
<1>. QED
  BY <1>1, <1>4, <1>5, <1>6, <1>7, <1>8 DEF Apart

\* The worker answers.
LEMMA ApartAnswer ==
  ASSUME ForumTypes, Apart(jobs, worker, signals), NEW s \in Signals,
         \/ ~IsAnswer(s)
         \/ IsJob(worker) /\ s.post = worker.post
  PROVE  Apart(jobs, IF IsAnswer(s) THEN NoJob ELSE worker, Append(signals, s))
<1>. jobs \in Seq(Jobs) /\ signals \in Seq(Signals)
  BY DEF ForumTypes
<1>. DEFINE w == IF IsAnswer(s) THEN NoJob ELSE worker
            ss == Append(signals, s)
<1>1. /\ Len(ss) = Len(signals) + 1 /\ Len(signals) \in Nat /\ ss[Len(signals) + 1] = s
      /\ \A k \in 1 .. Len(signals) : ss[k] = signals[k]
  BY Appended
<1>2. \A k \in 1 .. Len(signals) + 1 : k = Len(signals) + 1 \/ k \in 1 .. Len(signals)
  BY <1>1
<1>3. IsJob(w) => w = worker /\ ~IsAnswer(s)
  BY JobFields
<1>4. IsAnswer(s) => /\ \A k \in 1 .. Len(signals) : IsAnswer(signals[k]) => signals[k].post # s.post
                     /\ \A k \in 1 .. Len(jobs) : jobs[k].post # s.post
  BY DEF Apart
<1>. HIDE DEF w, ss
<1>5. Apart(jobs, w, ss)
  <2>1. \A i, k \in 1 .. Len(ss) : IsAnswer(ss[i]) /\ IsAnswer(ss[k]) /\ ss[i].post = ss[k].post => i = k
    BY <1>1, <1>2, <1>4 DEF Apart
  <2>2. \A i \in 1 .. Len(ss), k \in 1 .. Len(jobs) : IsAnswer(ss[i]) => ss[i].post # jobs[k].post
    BY <1>1, <1>2, <1>4 DEF Apart
  <2>3. \A i \in 1 .. Len(ss) : IsAnswer(ss[i]) /\ IsJob(w) => ss[i].post # w.post
    BY <1>1, <1>2, <1>3 DEF Apart
  <2>4. /\ \A i, k \in 1 .. Len(jobs) : jobs[i].post = jobs[k].post => i = k
        /\ \A k \in 1 .. Len(jobs) : IsJob(w) => jobs[k].post # w.post
    BY <1>3 DEF Apart
  <2>. QED
    BY <2>1, <2>2, <2>3, <2>4 DEF Apart
<1>. QED
  BY <1>5 DEF w, ss

\* The controller takes a signal.
LEMMA ApartHandle ==
  ASSUME ForumTypes, NEW js, Apart(js, worker, signals), signals # <<>>
  PROVE  /\ Apart(js, worker, Tail(signals))
         /\ IsAnswer(Head(signals)) =>
              /\ \A k \in 1 .. Len(js) : js[k].post # Head(signals).post
              /\ IsJob(worker) => worker.post # Head(signals).post
              /\ \A k \in 1 .. Len(Tail(signals)) : IsAnswer(Tail(signals)[k]) =>
                   Tail(signals)[k].post # Head(signals).post
<1>. signals \in Seq(Signals)
  BY DEF ForumTypes
<1>1. /\ Len(Tail(signals)) = Len(signals) - 1 /\ Len(signals) \in Nat \ {0} /\ Head(signals) = signals[1]
      /\ \A k \in 1 .. Len(signals) - 1 : Tail(signals)[k] = signals[k + 1]
  BY TailOf
<1>3. \A k \in 1 .. Len(signals) - 1 : k + 1 \in 1 .. Len(signals) /\ 1 \in 1 .. Len(signals) /\ k + 1 # 1
  BY <1>1
<1>5. \A i, k \in 1 .. Len(signals) - 1 :
         IsAnswer(Tail(signals)[i]) /\ IsAnswer(Tail(signals)[k]) /\ Tail(signals)[i].post = Tail(signals)[k].post
           => i = k
  <2>1. ASSUME NEW i \in 1 .. Len(signals) - 1, NEW k \in 1 .. Len(signals) - 1,
               IsAnswer(Tail(signals)[i]), IsAnswer(Tail(signals)[k]),
               Tail(signals)[i].post = Tail(signals)[k].post
        PROVE  i = k
    <3>1. i + 1 = k + 1
      BY <1>1, <1>3, <2>1 DEF Apart
    <3>. QED
      BY <1>1, <3>1
  <2>. QED
    BY <2>1
<1>6. /\ \A i \in 1 .. Len(signals) - 1, k \in 1 .. Len(js) :
           IsAnswer(Tail(signals)[i]) => Tail(signals)[i].post # js[k].post
      /\ \A i \in 1 .. Len(signals) - 1 :
           IsAnswer(Tail(signals)[i]) /\ IsJob(worker) => Tail(signals)[i].post # worker.post
  BY <1>1, <1>3 DEF Apart
<1>7. /\ \A i, k \in 1 .. Len(js) : js[i].post = js[k].post => i = k
      /\ \A k \in 1 .. Len(js) : IsJob(worker) => js[k].post # worker.post
  BY DEF Apart
<1>8. Apart(js, worker, Tail(signals))
  BY <1>1, <1>5, <1>6, <1>7 DEF Apart
<1>9. ASSUME IsAnswer(Head(signals))
      PROVE  /\ \A k \in 1 .. Len(js) : js[k].post # Head(signals).post
             /\ IsJob(worker) => worker.post # Head(signals).post
             /\ \A k \in 1 .. Len(Tail(signals)) : IsAnswer(Tail(signals)[k]) =>
                   Tail(signals)[k].post # Head(signals).post
  BY <1>1, <1>3, <1>9 DEF Apart
<1>. QED
  BY <1>8, <1>9

-----------------------------------------------------------------------------
\* What is under way after one more job, or one less.
LEMMA HeldAfter ==
  ASSUME ForumTypes, NEW j \in Jobs, Held(j)'
  PROVE  /\ jobs' = jobs /\ worker' = worker => Held(j)
         /\ jobs' = jobs /\ worker' = NoJob => Held(j) /\ InJobs(j)
         /\ \A n \in Jobs : jobs' = Append(jobs, n) /\ worker' = worker => Held(j) \/ j = n
         /\ jobs # <<>> /\ jobs' = Tail(jobs) /\ worker' \in {Head(jobs), Dead} => Held(j)
<1>. jobs \in Seq(Jobs) /\ IsJob(j) /\ ~IsJob(NoJob) /\ ~IsJob(Dead)
  BY JobFields DEF ForumTypes
<1>1. ASSUME jobs' = jobs, worker' = worker PROVE Held(j)
  BY <1>1 DEF Held, InJobs
<1>2. ASSUME jobs' = jobs, worker' = NoJob PROVE Held(j) /\ InJobs(j)
  BY <1>2 DEF Held, InJobs
<1>3. ASSUME NEW n \in Jobs, jobs' = Append(jobs, n), worker' = worker PROVE Held(j) \/ j = n
  <2>1. CASE worker' = j
    BY <1>3, <2>1 DEF Held
  <2>2. CASE InJobs(j)'
    <3>1. PICK k \in 1 .. Len(jobs') : jobs'[k] = j
      BY <2>2 DEF InJobs
    <3>2. /\ Len(jobs') = Len(jobs) + 1 /\ Len(jobs) \in Nat /\ jobs'[Len(jobs) + 1] = n
          /\ \A i \in 1 .. Len(jobs) : jobs'[i] = jobs[i]
      BY <1>3, Appended
    <3>3. k = Len(jobs) + 1 \/ k \in 1 .. Len(jobs)
      BY <3>2
    <3>. QED
      BY <3>1, <3>2, <3>3 DEF Held, InJobs
  <2>. QED
    BY <2>1, <2>2 DEF Held
<1>4. ASSUME jobs # <<>>, jobs' = Tail(jobs), worker' \in {Head(jobs), Dead} PROVE Held(j)
  <2>0. /\ Len(Tail(jobs)) = Len(jobs) - 1 /\ Len(jobs) \in Nat \ {0} /\ Head(jobs) = jobs[1]
        /\ \A k \in 1 .. Len(jobs) - 1 : Tail(jobs)[k] = jobs[k + 1]
    BY <1>4, TailOf
  <2>1. CASE worker' = j
    BY <1>4, <2>0, <2>1 DEF Held, InJobs
  <2>2. CASE InJobs(j)'
    <3>1. PICK k \in 1 .. Len(jobs') : jobs'[k] = j
      BY <2>2 DEF InJobs
    <3>2. k + 1 \in 1 .. Len(jobs) /\ jobs[k + 1] = j
      BY <1>4, <2>0, <3>1
    <3>. QED
      BY <3>2 DEF Held, InJobs
  <2>. QED
    BY <2>1, <2>2 DEF Held
<1>. QED
  BY <1>1, <1>2, <1>3, <1>4

LEMMA SignalAfter ==
  ASSUME ForumTypes, NEW s \in Signals, InSignals(s)'
  PROVE  /\ signals' = signals => InSignals(s)
         /\ \A n \in Signals : signals' = Append(signals, n) => InSignals(s) \/ s = n
         /\ signals # <<>> /\ signals' = Tail(signals) =>
              InSignals(s) /\ \E k \in 1 .. Len(Tail(signals)) : Tail(signals)[k] = s
<1>. signals \in Seq(Signals)
  BY DEF ForumTypes
<1>1. PICK k \in 1 .. Len(signals') : signals'[k] = s
  BY DEF InSignals
<1>2. ASSUME signals' = signals PROVE InSignals(s)
  BY <1>1, <1>2 DEF InSignals
<1>3. ASSUME NEW n \in Signals, signals' = Append(signals, n) PROVE InSignals(s) \/ s = n
  <2>1. /\ Len(signals') = Len(signals) + 1 /\ Len(signals) \in Nat /\ signals'[Len(signals) + 1] = n
        /\ \A i \in 1 .. Len(signals) : signals'[i] = signals[i]
    BY <1>3, Appended
  <2>2. k = Len(signals) + 1 \/ k \in 1 .. Len(signals)
    BY <2>1
  <2>. QED
    BY <1>1, <2>1, <2>2 DEF InSignals
<1>4. ASSUME signals # <<>>, signals' = Tail(signals)
      PROVE  InSignals(s) /\ \E i \in 1 .. Len(Tail(signals)) : Tail(signals)[i] = s
  <2>0. /\ Len(Tail(signals)) = Len(signals) - 1 /\ Len(signals) \in Nat \ {0}
        /\ \A i \in 1 .. Len(signals) - 1 : Tail(signals)[i] = signals[i + 1]
    BY <1>4, TailOf
  <2>1. k + 1 \in 1 .. Len(signals) /\ signals[k + 1] = s
    BY <1>1, <1>4, <2>0
  <2>. QED
    BY <1>1, <1>4, <2>1 DEF InSignals
<1>. QED
  BY <1>2, <1>3, <1>4

\* Only the row of p, and what the forum has of it, change; other rows may be marked.
MarkedStale(q) == posts[q].status = "posted" /\ posts'[q] = [posts[q] EXCEPT !.status = "stale"]
Only(p) ==
    /\ policy' = policy
    /\ \A q \in Posts : q # p => (posts'[q] = posts[q] \/ MarkedStale(q)) /\ forum'[q] = forum[q]

\* What concerns other posts stays sound.
LEMMA OthersStay ==
  ASSUME ForumTypes, ForumInv, NEW p, Only(p)
  PROVE  /\ \A j \in Jobs : Held(j) /\ j.post # p => SoundJob(j)'
         /\ \A s \in Signals : IsAnswer(s) /\ InSignals(s) /\ s.post # p => SoundAnswer(s)'
         /\ \A q \in Posts : q # p => SoundPost(q)'
<1>. posts \in [Posts -> Row]
  BY DEF ForumTypes
<1>1. ASSUME NEW j \in Jobs, Held(j), j.post # p PROVE SoundJob(j)'
  <2>1. SoundJob(j) /\ forum'[j.post] = forum[j.post] /\ policy' = policy
    BY <1>1, JobFields DEF ForumInv, JobsSound, Only
  <2>2. posts'[j.post] = posts[j.post]
    BY <1>1, <2>1, JobFields DEF Only, MarkedStale, SoundJob, Waits
  <2>. QED
    BY <2>1, <2>2 DEF SoundJob, Waits, Skips
<1>2. ASSUME NEW s \in Signals, IsAnswer(s), InSignals(s), s.post # p PROVE SoundAnswer(s)'
  <2>1. SoundAnswer(s) /\ forum'[s.post] = forum[s.post] /\ policy' = policy
    BY <1>2, SignalFields DEF ForumInv, AnswersSound, Only
  <2>2. posts'[s.post] = posts[s.post]
    BY <1>2, <2>1, SignalFields DEF Only, MarkedStale, SoundAnswer, Waits
  <2>. QED
    BY <2>1, <2>2 DEF SoundAnswer, Waits, Near, Strange, Skips
<1>3. ASSUME NEW q \in Posts, q # p PROVE SoundPost(q)'
  <2>1. SoundPost(q) /\ forum'[q] = forum[q] /\ policy' = policy
    BY <1>3 DEF ForumInv, PostsSound, Only
  <2>2. CASE posts'[q] = posts[q]
    BY <2>1, <2>2 DEF SoundPost, Near, Strange, Skips
  <2>3. CASE MarkedStale(q)
    <3>1. /\ posts'[q].status = "stale" /\ posts'[q].stored = posts[q].stored
          /\ posts'[q].known = posts[q].known /\ posts'[q].modes = posts[q].modes
      BY <2>3 DEF MarkedStale, Row
    <3>. QED
      BY <2>1, <3>1 DEF SoundPost, Near, Strange, Skips
  <2>. QED
    BY <1>3, <2>2, <2>3 DEF Only
<1>. QED
  BY <1>1, <1>2, <1>3

\* A new job for a post that nothing is under way for.
LEMMA JobGiven ==
  ASSUME ForumTypes, ForumInv, NEW n \in Jobs, Clear(n.post), Only(n.post),
         jobs' = Append(jobs, n), worker' = worker,
         signals' = signals \/ (signals # <<>> /\ signals' = Tail(signals)),
         SoundJob(n)', SoundPost(n.post)'
  PROVE  ForumInv'
<1>1. Apart(jobs', worker', signals')
  BY ApartJob, ApartHandle DEF ForumInv
<1>2. \A j \in Jobs : Held(j)' => SoundJob(j)'
  <2>1. ASSUME NEW j \in Jobs, Held(j)' PROVE SoundJob(j)'
    <3>1. Held(j) \/ j = n
      BY <2>1, HeldAfter
    <3>2. Held(j) => j.post # n.post
      BY DEF Clear
    <3>. QED
      BY <3>1, <3>2, OthersStay
  <2>. QED
    BY <2>1
<1>3. \A s \in Signals : IsAnswer(s) /\ InSignals(s)' => SoundAnswer(s)'
  <2>1. ASSUME NEW s \in Signals, IsAnswer(s), InSignals(s)' PROVE SoundAnswer(s)'
    <3>1. InSignals(s) /\ s.post # n.post
      BY <2>1, SignalAfter DEF Clear
    <3>. QED
      BY <2>1, <3>1, OthersStay
  <2>. QED
    BY <2>1
<1>4. PostsSound'
  BY OthersStay DEF PostsSound
<1>. QED
  BY <1>1, <1>2, <1>3, <1>4 DEF ForumInv, JobsSound, AnswersSound

\* A row changes and nothing is, or gets, under way for its post.
LEMMA RowChanged ==
  ASSUME ForumTypes, ForumInv, NEW p \in Posts, Clear(p), Only(p),
         jobs' = jobs, worker' = worker, signals' = signals, SoundPost(p)'
  PROVE  ForumInv'
<1>1. Apart(jobs', worker', signals')
  BY DEF ForumInv
<1>2. \A j \in Jobs : Held(j)' => SoundJob(j)'
  BY OthersStay, HeldAfter DEF Clear
<1>3. \A s \in Signals : IsAnswer(s) /\ InSignals(s)' => SoundAnswer(s)'
  BY OthersStay, SignalAfter DEF Clear
<1>4. PostsSound'
  BY OthersStay DEF PostsSound
<1>. QED
  BY <1>1, <1>2, <1>3, <1>4 DEF ForumInv, JobsSound, AnswersSound

\* An update is planned from what was recorded and what is on the forum.
LEMMA UpdateKeeps ==
  ASSUME ForumTypes, ForumInv, NEW p \in Posts, UpdatePost(p)
  PROVE  ForumInv'
<1>. posts \in [Posts -> Row] /\ forum \in [Posts -> Shown] /\ posts[p] \in Row /\ forum[p] \in Shown
  BY DEF ForumTypes
<1>1. /\ posts[p].status \in {"stale", "posted", "failed"}
      /\ UNCHANGED <<policy, body, forum, worker, paused, signals>>
  BY UpdateKinds
<1>2. Clear(p) /\ SoundPost(p)
  BY <1>1, Rests DEF Waits, ForumInv, PostsSound
<1>3. PICK r \in Row : /\ posts' = [posts EXCEPT ![p] = r]
                       /\ r.known = posts[p].known /\ posts[p].modes \subseteq r.modes
                       /\ LetBe(p, r) \/ Edits(p, r)
  BY UpdateKinds
<1>4. posts'[p] = r /\ Only(p) /\ policy' = policy /\ forum' = forum
  BY <1>1, <1>3 DEF Only
<1>5. policy = "skip_alert" /\ r.modes \subseteq {"whole"} => Skips(p)
  BY <1>3 DEF Skips
<1>6. CASE LetBe(p, r)
  <2>1. SoundPost(p)'
    <3>1. (Near(p) => Near(p)') /\ (Strange(p) => Strange(p)')
      BY <1>3, <1>4, <1>5, <1>6 DEF Near, Strange, Skips, LetBe
    <3>2. Skips(p)' => Skips(p)
      BY <1>4, <1>5 DEF Skips
    <3>. QED
      BY <1>2, <1>3, <1>4, <1>6, <3>1, <3>2 DEF SoundPost, LetBe
  <2>2. jobs' = jobs
    BY <1>6 DEF LetBe
  <2>. QED
    BY <1>1, <1>2, <1>4, <2>1, <2>2, RowChanged
<1>7. CASE Edits(p, r)
  <2>1. /\ r.status = "updating" /\ posts[p].known
        /\ Skips(p)' => Skips(p) /\ posts[p].stored = forum[p].text /\ ~r.stored.edited
    BY <1>4, <1>5, <1>7 DEF Edits, Skips
  <2>2. Skips(p)' => Near(p)
    BY <1>2, <2>1 DEF SoundPost, Strange
  <2>3. Near(p) \/ Strange(p) => Near(p)' \/ Strange(p)'
    BY <1>4, <2>1, <2>2 DEF Near, Strange
  <2>4. SoundPost(p)'
    BY <1>2, <1>3, <1>4, <2>1, <2>3 DEF SoundPost
  <2>5. PICK n \in Jobs : n = Job("edit", p, r.stored, forum[p].text)
    BY EnqueueTypes, RowFields DEF Shown
  <2>6. Skips(p)' => forum[p].text = forum[p].sent
    <3>. SUFFICES ASSUME Skips(p)' PROVE forum[p].text = forum[p].sent
      OBVIOUS
    <3>1. forum[p].text = forum[p].sent \/ forum[p].text = Edited(forum[p].sent)
      BY <2>2 DEF Near
    <3>2. posts[p].stored = forum[p].text /\ Skips(p)
      BY <2>1
    <3>3. forum[p].text = Edited(forum[p].sent) => posts[p].stored.edited
      <4>1. forum[p].sent \in Texts
        BY DEF Shown
      <4>2. \A u \in Texts : Edited(u).edited
        BY TextTypes DEF ForumTypes
      <4>. QED
        BY <3>2, <4>1, <4>2
    <3>4. posts[p].stored.edited => posts[p].stored = forum[p].sent
      BY <1>2, <3>2 DEF SoundPost
    <3>. QED
      BY <3>1, <3>2, <3>3, <3>4, Zenon
  <2>7. n.post = p /\ n.kind = "edit" /\ n.text = r.stored /\ n.base = forum[p].text
    BY <2>5 DEF Job
  <2>8. SoundJob(n)'
    BY <1>3, <1>4, <2>1, <2>6, <2>7 DEF SoundJob, Waits
  <2>9. jobs' = Append(jobs, n)
    BY <1>7, <2>5 DEF Edits
  <2>. QED
    BY <1>1, <1>2, <1>4, <2>4, <2>7, <2>8, <2>9, JobGiven
<1>. QED
  BY <1>3, <1>6, <1>7

\* Posts that are new, and posts that are edited on the forum.
LEMMA NewPostKeeps ==
  ASSUME ForumTypes, ForumInv, NEW p \in Posts, PostNow(p) \/ OnboardPost(p)
  PROVE  ForumInv'
<1>. posts \in [Posts -> Row] /\ forum \in [Posts -> Shown] /\ posts[p] \in Row /\ forum[p] \in Shown
  BY DEF ForumTypes
<1>1. posts[p].status = "none" /\ UNCHANGED <<policy, worker, signals>>
  BY DEF PostNow, OnboardPost, NextPost, Has
<1>2. Clear(p) /\ SoundPost(p)
  BY <1>1, Rests DEF Waits, ForumInv, PostsSound
<1>3. CASE PostNow(p)
  <2>1. PICK t \in Texts : t = Rendered /\ ~t.edited /\ t.of # Theirs
    BY TextTypes DEF ForumTypes
  <2>2. PICK n \in Jobs : n = Job("post", p, t, NoText)
    BY <2>1, EnqueueTypes
  <2>3. n.post = p /\ n.kind = "post" /\ n.text = t
    BY <2>2 DEF Job
  <2>4. posts' = [posts EXCEPT ![p] = EnqueuedRow] /\ forum' = forum /\ jobs' = Append(jobs, n)
    BY <1>3, <2>1, <2>2 DEF PostNow, EnqueuePost, EnqueuedRow
  <2>5. posts'[p].status = "queued" /\ posts'[p].stored = t /\ posts'[p].known = FALSE
    BY <2>1, <2>4 DEF EnqueuedRow, NewPost
  <2>6. Only(p)
    BY <1>1, <2>4 DEF Only
  <2>7. SoundJob(n)'
    BY <2>1, <2>3, <2>5 DEF SoundJob, Waits
  <2>8. SoundPost(p)'
    BY <2>1, <2>5 DEF SoundPost
  <2>. QED
    BY <1>1, <1>2, <2>3, <2>4, <2>6, <2>7, <2>8, JobGiven
<1>4. CASE OnboardPost(p)
  <2>. DEFINE n == Job("fetch", p, NoText, NoText)
  <2>1. /\ posts' = [posts EXCEPT ![p].status = "queued"] /\ jobs' = Append(jobs, n)
        /\ \A q \in Posts : q # p => forum'[q] = forum[q]
    BY <1>4 DEF OnboardPost
  <2>2. n \in Jobs /\ n.post = p /\ n.kind = "fetch"
    BY EnqueueTypes DEF Job
  <2>. HIDE DEF n
  <2>3. posts'[p].status = "queued" /\ posts'[p].stored = posts[p].stored /\ posts'[p].known = posts[p].known
    BY <2>1 DEF Row
  <2>4. ~posts[p].known /\ ~posts[p].stored.edited
    BY <1>1, <1>2 DEF SoundPost
  <2>5. Only(p)
    BY <1>1, <2>1 DEF Only
  <2>6. SoundJob(n)'
    BY <2>2, <2>3, <2>4 DEF SoundJob, Waits
  <2>7. SoundPost(p)'
    BY <2>3, <2>4 DEF SoundPost
  <2>. QED
    BY <1>1, <1>2, <2>1, <2>2, <2>5, <2>6, <2>7, JobGiven
<1>. QED
  BY <1>3, <1>4

LEMMA HandEditKeeps ==
  ASSUME ForumTypes, ForumInv, NEW p \in Posts, EditByHand(p)
  PROVE  ForumInv'
<1>. posts \in [Posts -> Row] /\ forum \in [Posts -> Shown] /\ forum[p] \in Shown
  BY DEF ForumTypes
<1>1. /\ UNCHANGED <<policy, posts, jobs, worker, signals>>
      /\ forum'[p].sent = forum[p].sent /\ forum'[p].misread = forum[p].misread
      /\ forum'[p].text = Edited(forum[p].text) /\ ~forum[p].text.edited
      /\ \A q \in Posts : q # p => forum'[q] = forum[q]
  BY DEF EditByHand, Shown
<1>2. Only(p)
  BY <1>1 DEF Only
<1>3. (Near(p) => Near(p)') /\ (Strange(p) => Strange(p)')
  <2>1. \A t \in Texts : Edited(t).edited /\ Edited(t).of = t.of
    BY TextTypes DEF ForumTypes
  <2>2. forum[p].sent \in Texts /\ forum[p].text \in Texts
    BY DEF Shown
  <2>. QED
    BY <1>1, <2>1, <2>2 DEF Near, Strange, Skips
<1>4. ASSUME NEW j \in Jobs, Held(j)' PROVE SoundJob(j)'
  <2>1. SoundJob(j)
    BY <1>1, <1>4, HeldAfter DEF ForumInv, JobsSound
  <2>2. CASE j.post = p
    BY <1>1, <2>1, <2>2 DEF SoundJob, Waits, Skips
  <2>3. CASE j.post # p
    BY <1>1, <1>2, <1>4, <2>3, HeldAfter, OthersStay
  <2>. QED
    BY <2>2, <2>3
<1>5. ASSUME NEW s \in Signals, IsAnswer(s), InSignals(s)' PROVE SoundAnswer(s)'
  <2>1. InSignals(s) /\ SoundAnswer(s)
    BY <1>1, <1>5, SignalAfter DEF ForumInv, AnswersSound
  <2>2. CASE s.post = p
    BY <1>1, <1>3, <2>1, <2>2 DEF SoundAnswer, Waits
  <2>3. CASE s.post # p
    BY <1>2, <1>5, <2>1, <2>3, OthersStay
  <2>. QED
    BY <2>2, <2>3
<1>6. SoundPost(p)'
  BY <1>1, <1>3 DEF ForumInv, PostsSound, SoundPost, Skips
<1>. QED
  BY <1>1, <1>2, <1>4, <1>5, <1>6, OthersStay DEF ForumInv, JobsSound, AnswersSound, PostsSound

\* The BBCode is made again.
LEMMA RegenerateKeeps ==
  ASSUME ForumTypes, ForumInv, NEW cause \in {"upload", "template_edit"}, Regenerate(cause)
  PROVE  ForumInv'
<1>1. PICK s \in Signals : s = Signal(cause, 0, NoText)
  BY DEF Signal, Signals
<1>2. /\ UNCHANGED <<policy, posts, forum, jobs, worker>> /\ signals' = Append(signals, s)
      /\ ~IsAnswer(s)
  BY <1>1 DEF Regenerate, Signal, IsAnswer, Answers
<1>3. Apart(jobs', worker', signals')
  BY <1>2, ApartAnswer DEF ForumInv
<1>4. ASSUME NEW j \in Jobs, Held(j)' PROVE SoundJob(j)'
  <2>1. SoundJob(j)
    BY <1>2, <1>4, HeldAfter DEF ForumInv, JobsSound
  <2>. QED
    BY <1>2, <2>1 DEF SoundJob, Waits, Skips
<1>5. ASSUME NEW q \in Signals, IsAnswer(q), InSignals(q)' PROVE SoundAnswer(q)'
  <2>1. SoundAnswer(q)
    BY <1>2, <1>5, SignalAfter DEF ForumInv, AnswersSound
  <2>. QED
    BY <1>2, <2>1 DEF SoundAnswer, Waits, Near, Strange, Skips
<1>6. ASSUME NEW p \in Posts PROVE SoundPost(p)'
  BY <1>2 DEF ForumInv, PostsSound, SoundPost, Near, Strange, Skips
<1>. QED
  BY <1>3, <1>4, <1>5, <1>6 DEF ForumInv, JobsSound, AnswersSound, PostsSound

LEMMA AnsweredValues ==
  ASSUME NEW r \in Row, NEW s \in Signals, IsAnswer(s), NEW n, n = Answered(r, s)
  PROVE  /\ n.modes = r.modes
         /\ s.kind = "failed" => n.status = "failed" /\ n.stored = r.stored /\ n.known = r.known
         /\ s.kind = "fetched" => n.status = "posted" /\ n.stored = s.text /\ n.known = TRUE
         /\ s.kind = "posted" => n.status = "posted" /\ n.stored = r.stored /\ n.known = TRUE
         /\ s.kind = "edited" => n.status = "posted" /\ n.stored = r.stored /\ n.known = r.known
<1>1. ASSUME s.kind = "failed" PROVE n.status = "failed" /\ n.stored = r.stored /\ n.known = r.known
  BY <1>1 DEF Answered, Row
<1>2. ASSUME s.kind = "fetched" PROVE n.status = "posted" /\ n.stored = s.text /\ n.known = TRUE
  BY <1>2 DEF Answered, Row
<1>3. ASSUME s.kind = "posted" PROVE n.status = "posted" /\ n.stored = r.stored /\ n.known = TRUE
  BY <1>3 DEF Answered, Row
<1>4. ASSUME s.kind = "edited" PROVE n.status = "posted" /\ n.stored = r.stored /\ n.known = r.known
  BY <1>4 DEF Answered, Row
<1>5. n.modes = r.modes
  <2>1. s.kind \in {"failed", "fetched", "posted", "edited"}
    BY DEF IsAnswer, Answers
  <2>2. CASE s.kind = "failed"
    BY <2>2 DEF Answered, Row
  <2>3. CASE s.kind = "fetched"
    BY <2>3 DEF Answered, Row
  <2>4. CASE s.kind = "posted"
    BY <2>4 DEF Answered, Row
  <2>5. CASE s.kind = "edited"
    BY <2>5 DEF Answered, Row
  <2>. QED
    BY <2>1, <2>2, <2>3, <2>4, <2>5
<1>. QED
  BY <1>1, <1>2, <1>3, <1>4, <1>5

\* A post that was read or taken by the forum has what its answer says.
LEMMA AnswerSettles ==
  ASSUME ForumTypes, ForumInv, NEW s \in Signals, IsAnswer(s), InSignals(s),
         policy' = policy, forum' = forum, posts' = [posts EXCEPT ![s.post] = Answered(@, s)]
  PROVE  SoundPost(s.post)'
<1>. s.post \in Posts /\ posts \in [Posts -> Row] /\ posts[s.post] \in Row
  BY SignalFields DEF ForumTypes
<1>1. SoundAnswer(s) /\ SoundPost(s.post)
  BY DEF ForumInv, AnswersSound, PostsSound
<1>2. PICK r \in Row : r = posts[s.post]
  OBVIOUS
<1>. DEFINE n == Answered(r, s)
<1>3. posts'[s.post] = n
  BY <1>2
<1>4. /\ n.modes = r.modes
      /\ s.kind = "failed" => n.status = "failed" /\ n.stored = r.stored /\ n.known = r.known
      /\ s.kind = "fetched" => n.status = "posted" /\ n.stored = s.text /\ n.known = TRUE
      /\ s.kind = "posted" => n.status = "posted" /\ n.stored = r.stored /\ n.known = TRUE
      /\ s.kind = "edited" => n.status = "posted" /\ n.stored = r.stored /\ n.known = r.known
  BY AnsweredValues
<1>. HIDE DEF n
<1>5. /\ Near(s.post) <=> Near(s.post)'
      /\ Skips(s.post) <=> Skips(s.post)'
      /\ posts'[s.post].stored = posts[s.post].stored /\ Strange(s.post) => Strange(s.post)'
  BY <1>2, <1>3, <1>4 DEF Near, Skips, Strange
<1>6. s.kind \in {"failed", "fetched", "posted", "edited"}
  BY DEF IsAnswer, Answers
<1>7. CASE s.kind = "failed"
  <2>1. /\ posts'[s.post].modes = posts[s.post].modes /\ posts'[s.post].status = "failed" /\ posts'[s.post].stored = posts[s.post].stored
        /\ posts'[s.post].known = posts[s.post].known
    BY <1>2, <1>7, <1>3, <1>4 DEF Row
  <2>. QED
    BY <1>1, <1>5, <2>1 DEF SoundPost
<1>8. CASE s.kind = "fetched"
  <2>1. posts'[s.post].modes = posts[s.post].modes /\ posts'[s.post].status = "posted" /\ posts'[s.post].stored = s.text /\ posts'[s.post].known = TRUE
    BY <1>2, <1>8, <1>3, <1>4
  <2>. QED
    BY <1>1, <1>5, <1>8, <2>1 DEF SoundPost, SoundAnswer
<1>9. CASE s.kind = "posted"
  <2>1. /\ posts'[s.post].modes = posts[s.post].modes /\ posts'[s.post].status = "posted" /\ posts'[s.post].stored = posts[s.post].stored
        /\ posts'[s.post].known = TRUE
    BY <1>2, <1>9, <1>3, <1>4 DEF Row
  <2>. QED
    BY <1>1, <1>5, <1>9, <2>1 DEF SoundPost, SoundAnswer
<1>10. CASE s.kind = "edited"
  <2>1. /\ posts'[s.post].modes = posts[s.post].modes /\ posts'[s.post].status = "posted" /\ posts'[s.post].stored = posts[s.post].stored
        /\ posts'[s.post].known = posts[s.post].known
    BY <1>2, <1>10, <1>3, <1>4 DEF Row
  <2>. QED
    BY <1>1, <1>5, <1>10, <2>1 DEF SoundPost, SoundAnswer
<1>. QED
  BY <1>6, <1>7, <1>8, <1>9, <1>10

\* The controller handles a signal.
LEMMA HandleKeeps ==
  ASSUME ForumTypes, ForumInv, Handle
  PROVE  ForumInv'
<1>. posts \in [Posts -> Row] /\ forum \in [Posts -> Shown] /\ signals \in Seq(Signals)
  BY DEF ForumTypes
<1>1. PICK s \in Signals : s = Head(signals)
  BY HandleKinds
<1>2. signals # <<>> /\ signals' = Tail(signals) /\ UNCHANGED <<policy, body, forum, worker, paused>>
  BY HandleKinds
<1>3. /\ Apart(jobs, worker, Tail(signals))
      /\ IsAnswer(s) => /\ \A k \in 1 .. Len(jobs) : jobs[k].post # s.post
                        /\ IsJob(worker) => worker.post # s.post
                        /\ \A k \in 1 .. Len(Tail(signals)) : IsAnswer(Tail(signals)[k]) =>
                              Tail(signals)[k].post # s.post
  BY <1>1, <1>2, ApartHandle DEF ForumInv
<1>4. \A q \in Posts : Marked[q] = posts[q] \/ (posts[q].status = "posted" /\ Marked[q] = [posts[q] EXCEPT !.status = "stale"])
  BY DEF Marked, Has
<1>5. CASE posts' = Marked /\ jobs' = jobs
  <2>1. PICK p : p \notin Posts
    <3>1. (CHOOSE x : x \notin Posts) \notin Posts
      BY ForumAssumption
    <3>. QED
      BY <3>1
  <2>2. Only(p)
    BY <1>2, <1>4, <1>5 DEF Only, MarkedStale
  <2>3. ASSUME NEW j \in Jobs, Held(j)' PROVE SoundJob(j)'
    <3>1. Held(j) /\ j.post # p
      BY <1>2, <1>5, <2>1, <2>3, HeldAfter, JobFields
    <3>. QED
      BY <2>2, <3>1, OthersStay
  <2>4. ASSUME NEW q \in Signals, IsAnswer(q), InSignals(q)' PROVE SoundAnswer(q)'
    <3>1. InSignals(q) /\ q.post # p
      BY <1>2, <2>1, <2>4, SignalAfter, SignalFields
    <3>. QED
      BY <2>2, <2>4, <3>1, OthersStay
  <2>5. PostsSound'
    BY <2>1, <2>2, OthersStay DEF PostsSound
  <2>. QED
    BY <1>2, <1>3, <1>5, <2>3, <2>4, <2>5 DEF ForumInv, JobsSound, AnswersSound
<1>6. CASE \E p \in Posts : /\ posts[p].status = "none"
                            /\ posts' = [Marked EXCEPT ![p] = EnqueuedRow]
                            /\ jobs' = Append(jobs, Job("post", p, Rendered, NoText))
  <2>1. PICK p \in Posts : /\ posts[p].status = "none"
                           /\ posts' = [Marked EXCEPT ![p] = EnqueuedRow]
                           /\ jobs' = Append(jobs, Job("post", p, Rendered, NoText))
    BY <1>6
  <2>2. PICK t \in Texts : t = Rendered /\ ~t.edited /\ t.of # Theirs
    BY TextTypes DEF ForumTypes
  <2>3. PICK n \in Jobs : n = Job("post", p, t, NoText)
    BY <2>2, EnqueueTypes
  <2>4. n.post = p /\ n.kind = "post" /\ n.text = t
    BY <2>3 DEF Job
  <2>5. Clear(p)
    BY <2>1, Rests DEF Waits
  <2>6. posts'[p] = EnqueuedRow /\ \A q \in Posts : q # p => posts'[q] = Marked[q]
    BY <2>1 DEF Marked
  <2>7. posts'[p].status = "queued" /\ posts'[p].stored = t /\ posts'[p].known = FALSE
    BY <2>2, <2>6 DEF EnqueuedRow, NewPost
  <2>8. Only(p)
    BY <1>2, <1>4, <2>6 DEF Only, MarkedStale
  <2>9. SoundJob(n)'
    BY <2>2, <2>4, <2>7 DEF SoundJob, Waits
  <2>10. SoundPost(p)'
    BY <2>2, <2>7 DEF SoundPost
  <2>. QED
    BY <1>2, <2>1, <2>2, <2>3, <2>4, <2>5, <2>8, <2>9, <2>10, JobGiven
<1>7. CASE IsAnswer(s) /\ jobs' = jobs /\ posts' = [posts EXCEPT ![s.post] = Answered(@, s)]
  <2>1. InSignals(s) /\ s.post \in Posts
    BY <1>1, <1>2, <1>7, TailOf, SignalFields DEF InSignals
  <2>2. SoundPost(s.post)'
    BY <1>2, <1>7, <2>1, AnswerSettles
  <2>3. Only(s.post)
    BY <1>2, <1>7 DEF Only
  <2>4. ASSUME NEW j \in Jobs, Held(j)' PROVE SoundJob(j)'
    <3>1. Held(j)
      BY <1>2, <1>7, <2>4, HeldAfter
    <3>2. j.post # s.post
      BY <1>3, <1>7, <3>1, JobFields DEF Held, InJobs
    <3>. QED
      BY <2>3, <3>1, <3>2, OthersStay
  <2>5. ASSUME NEW q \in Signals, IsAnswer(q), InSignals(q)' PROVE SoundAnswer(q)'
    <3>1. InSignals(q) /\ \E k \in 1 .. Len(Tail(signals)) : Tail(signals)[k] = q
      BY <1>2, <2>5, SignalAfter
    <3>2. q.post # s.post
      BY <1>3, <1>7, <2>5, <3>1
    <3>. QED
      BY <2>3, <2>5, <3>1, <3>2, OthersStay
  <2>6. PostsSound'
    BY <2>2, <2>3, OthersStay DEF PostsSound
  <2>. QED
    BY <1>2, <1>3, <1>7, <2>4, <2>5, <2>6 DEF ForumInv, JobsSound, AnswersSound
<1>. QED
  BY <1>1, <1>5, <1>6, <1>7, HandleKinds

\* The worker takes a job.
LEMMA TakeKeeps ==
  ASSUME ForumTypes, ForumInv, Take
  PROVE  ForumInv'
<1>1. /\ jobs # <<>> /\ jobs' = Tail(jobs) /\ worker' \in {Head(jobs), Dead}
      /\ UNCHANGED <<policy, posts, forum, signals>>
  BY DEF Take, Dead
<1>2. Apart(jobs', worker', signals')
  BY <1>1, ApartTake DEF ForumInv
<1>3. ASSUME NEW j \in Jobs, Held(j)' PROVE SoundJob(j)'
  <2>1. SoundJob(j)
    BY <1>1, <1>3, HeldAfter DEF ForumInv, JobsSound
  <2>. QED
    BY <1>1, <2>1 DEF SoundJob, Waits, Skips
<1>4. ASSUME NEW q \in Signals, IsAnswer(q), InSignals(q)' PROVE SoundAnswer(q)'
  <2>1. SoundAnswer(q)
    BY <1>1, <1>4, SignalAfter DEF ForumInv, AnswersSound
  <2>. QED
    BY <1>1, <2>1 DEF SoundAnswer, Waits, Near, Strange, Skips
<1>5. ASSUME NEW p \in Posts PROVE SoundPost(p)'
  BY <1>1 DEF ForumInv, PostsSound, SoundPost, Near, Strange, Skips
<1>. QED
  BY <1>2, <1>3, <1>4, <1>5 DEF ForumInv, JobsSound, AnswersSound, PostsSound

\* The worker answers for the job it has.
LEMMA AnswerKeeps ==
  ASSUME ForumTypes, ForumInv, Succeed \/ Fetch \/ Refuse \/ Misread
  PROVE  ForumInv'
<1>. posts \in [Posts -> Row] /\ forum \in [Posts -> Shown]
  BY DEF ForumTypes
<1>1. /\ IsJob(worker) /\ worker \in Jobs /\ worker.post \in Posts /\ worker' = NoJob
      /\ policy' = policy /\ posts' = posts /\ jobs' = jobs
  BY WorkersAnswer
<1>2. PICK kind \in Answers, t \in Texts : Answer(kind, t) /\ Told(kind, t)
  BY WorkersAnswer
<1>3. PICK w \in Jobs : w = worker
  BY <1>1
<1>4. PICK p \in Posts : p = w.post
  BY <1>1, <1>3
<1>5. PICK s \in Signals : s = Signal(kind, p, t)
  BY <1>1, <1>2, <1>3, <1>4, AnswerType
<1>6. s.kind = kind /\ s.post = p /\ s.text = t /\ IsAnswer(s) /\ signals' = Append(signals, s)
  BY <1>1, <1>2, <1>3, <1>4, <1>5, AnswerType DEF Signal, IsAnswer
<1>7. Only(p)
  <2>1. \A q \in Posts : q # p => forum'[q] = forum[q]
    BY <1>1, <1>2, <1>3, <1>4 DEF Told
  <2>. QED
    BY <1>1, <2>1 DEF Only
<1>8. SoundJob(w) /\ SoundPost(p)
  BY <1>1, <1>3 DEF ForumInv, JobsSound, PostsSound, Held
<1>9. SoundAnswer(s)' /\ SoundPost(p)'
  <2>1. posts[p] \in Row /\ forum[p] \in Shown /\ Waits(p) /\ (Skips(p)' <=> Skips(p))
    BY <1>1, <1>4, <1>8 DEF SoundJob, Skips
  <2>2. CASE /\ w.kind \in {"post", "edit"} /\ forum' = [forum EXCEPT ![p] = OnForum(w.text)]
             /\ kind \in {"failed", "posted", "edited"}
    <3>1. forum'[p].text = w.text /\ forum'[p].sent = w.text
      BY <2>2 DEF OnForum
    <3>2. posts[p].stored = w.text
      BY <1>4, <1>8, <2>2 DEF SoundJob
    <3>3. Near(p)'
      BY <3>1 DEF Near
    <3>4. SoundAnswer(s)'
      BY <1>1, <1>6, <2>1, <2>2, <3>1, <3>2, <3>3 DEF SoundAnswer, Waits
    <3>5. SoundPost(p)'
      BY <1>1, <2>1, <3>1, <3>2, <3>3 DEF SoundPost, Waits
    <3>. QED
      BY <3>4, <3>5
  <2>3. CASE /\ w.kind = "fetch" /\ kind = "fetched" /\ t = forum[p].text
             /\ forum' = [forum EXCEPT ![p] = OnForum(forum[p].text)]
    <3>1. forum'[p].text = t /\ forum'[p].sent = t
      BY <2>1, <2>3 DEF Shown, OnForum
    <3>2. ~posts[p].stored.edited
      BY <1>4, <1>8, <2>3 DEF SoundJob
    <3>3. Near(p)'
      BY <3>1 DEF Near
    <3>4. SoundAnswer(s)'
      BY <1>1, <1>6, <2>1, <2>3, <3>1, <3>2, <3>3 DEF SoundAnswer, Waits
    <3>5. SoundPost(p)'
      BY <1>1, <2>1, <3>1, <3>2, <3>3 DEF SoundPost, Waits
    <3>. QED
      BY <3>4, <3>5
  <2>4. CASE kind = "failed" /\ forum' = forum
    <3>1. SoundAnswer(s)'
      BY <1>1, <1>6, <2>1, <2>4 DEF SoundAnswer, Waits
    <3>2. SoundPost(p)'
      BY <1>1, <1>8, <2>4 DEF SoundPost, Near, Strange, Skips
    <3>. QED
      BY <3>1, <3>2
  <2>5. CASE w.kind = "edit" /\ kind = "edited" /\ forum' = [forum EXCEPT ![p].misread = TRUE]
    <3>1. forum'[p].text = forum[p].text /\ forum'[p].sent = forum[p].sent /\ forum'[p].misread
      BY <2>1, <2>5 DEF Shown
    <3>2. SoundAnswer(s)'
      BY <1>1, <1>6, <2>1, <2>5, <3>1 DEF SoundAnswer, Waits
    <3>3. SoundPost(p)'
      BY <1>1, <1>8, <3>1 DEF SoundPost, Near, Strange, Skips
    <3>. QED
      BY <3>2, <3>3
  <2>6. CASE /\ w.kind = "post" /\ kind = "posted"
             /\ forum' = [forum EXCEPT ![p].text = Foreign, ![p].misread = TRUE]
    <3>1. forum'[p].text = Foreign /\ forum'[p].sent = forum[p].sent /\ forum'[p].misread
      BY <2>1, <2>6 DEF Shown
    <3>2. posts[p].stored.of # Theirs
      BY <1>4, <1>8, <2>6 DEF SoundJob
    <3>3. Foreign.of = Theirs
      BY DEF Foreign
    <3>4. Strange(p)'
      BY <1>1, <3>1, <3>2, <3>3 DEF Strange
    <3>5. SoundAnswer(s)'
      BY <1>1, <1>6, <2>1, <2>6, <3>1, <3>4 DEF SoundAnswer, Waits
    <3>6. SoundPost(p)'
      BY <1>1, <1>8, <2>1, <3>1, <3>4 DEF SoundPost, Waits
    <3>. QED
      BY <3>5, <3>6
  <2>. QED
    BY <1>2, <1>3, <1>4, <2>2, <2>3, <2>4, <2>5, <2>6 DEF Told
<1>10. Apart(jobs', worker', signals')
  BY <1>1, <1>3, <1>4, <1>6, ApartAnswer DEF ForumInv
<1>11. ASSUME NEW j \in Jobs, Held(j)' PROVE SoundJob(j)'
  <2>1. Held(j) /\ InJobs(j)
    BY <1>1, <1>11, HeldAfter
  <2>2. j.post # p
    BY <1>1, <1>3, <1>4, <2>1 DEF ForumInv, Apart, InJobs
  <2>. QED
    BY <1>7, <2>1, <2>2, OthersStay
<1>12. ASSUME NEW q \in Signals, IsAnswer(q), InSignals(q)' PROVE SoundAnswer(q)'
  <2>1. CASE q = s
    BY <1>9, <2>1
  <2>2. CASE InSignals(q)
    <3>1. q.post # p
      BY <1>1, <1>3, <1>4, <1>12, <2>2 DEF ForumInv, Apart, InSignals
    <3>. QED
      BY <1>7, <1>12, <2>2, <3>1, OthersStay
  <2>. QED
    BY <1>6, <1>12, <2>1, <2>2, SignalAfter
<1>13. PostsSound'
  BY <1>7, <1>9, OthersStay DEF PostsSound
<1>. QED
  BY <1>10, <1>11, <1>12, <1>13 DEF ForumInv, JobsSound, AnswersSound

LEMMA ForumInvInit == ForumInit => ForumInv
<1>. SUFFICES ASSUME ForumInit PROVE ForumInv
  OBVIOUS
<1>1. /\ jobs = <<>> /\ worker = NoJob /\ signals = <<>>
      /\ \A p \in Posts : /\ posts[p].status = "none" /\ posts[p].stored = NoText /\ posts[p].known = FALSE
                          /\ forum[p].text = NoText /\ forum[p].sent = NoText
  BY DEF ForumInit, NewPost
<1>2. Apart(jobs, worker, signals)
  BY <1>1, JobFields DEF Apart
<1>3. JobsSound /\ AnswersSound
  <2>1. \A j \in Jobs : ~Held(j)
    BY <1>1, JobFields DEF Held, InJobs
  <2>2. \A s \in Signals : ~InSignals(s)
    BY <1>1 DEF InSignals
  <2>. QED
    BY <2>1, <2>2 DEF JobsSound, AnswersSound
<1>4. PostsSound
  <2>1. NoText.edited = FALSE
    BY DEF NoText
  <2>2. ASSUME NEW p \in Posts PROVE SoundPost(p)
    <3>1. posts[p].status = "none" /\ posts[p].stored = forum[p].sent /\ ~posts[p].known /\ ~posts[p].stored.edited
      BY <1>1, <2>1
    <3>. QED
      BY <3>1 DEF SoundPost
  <2>. QED
    BY <2>2 DEF PostsSound
<1>. QED
  BY <1>2, <1>3, <1>4 DEF ForumInv

LEMMA ForumInvNext == ForumTypes /\ ForumInv /\ [ForumNext]_forumVars => ForumInv'
<1>. SUFFICES ASSUME ForumTypes, ForumInv, [ForumNext]_forumVars PROVE ForumInv'
  OBVIOUS
<1>1. CASE \E p \in Posts : PostNow(p) \/ OnboardPost(p)
  BY <1>1, NewPostKeeps
<1>2. CASE \E p \in Posts : UpdatePost(p)
  BY <1>2, UpdateKeeps
<1>3. CASE \E p \in Posts : EditByHand(p)
  BY <1>3, HandEditKeeps
<1>4. CASE \E cause \in {"upload", "template_edit"} : Regenerate(cause)
  BY <1>4, RegenerateKeeps
<1>5. CASE Handle
  BY <1>5, HandleKeeps
<1>6. CASE Take
  BY <1>6, TakeKeeps
<1>7. CASE Succeed \/ Fetch \/ Refuse \/ Misread
  BY <1>7, AnswerKeeps
<1>8. CASE UNCHANGED forumVars
  <2>1. \A j \in Jobs : Held(j)' => Held(j)
    BY <1>8 DEF forumVars, Held, InJobs
  <2>. QED
    BY <1>8 DEF forumVars, ForumInv, JobsSound, AnswersSound, PostsSound, Held, InJobs, InSignals,
                SoundJob, SoundAnswer, SoundPost, Waits, Near, Strange, Skips
<1>. QED
  BY <1>1, <1>2, <1>3, <1>4, <1>5, <1>6, <1>7, <1>8 DEF ForumNext, ForumWork

LEMMA ForumInvHolds == ForumSpec => [](ForumTypes /\ ForumInv)
<1>1. ForumInit => ForumTypes /\ ForumInv
  BY ForumTypesInit, ForumInvInit
<1>2. ForumTypes /\ ForumInv /\ [ForumNext]_forumVars => (ForumTypes /\ ForumInv)'
  BY ForumTypesNext, ForumInvNext
<1>. QED
  BY <1>1, <1>2, PTL DEF ForumSpec

\* Unless a page was taken for a success or the post was updated in surgical
\* mode, a row that says posted has recorded the text this program last left on
\* the forum.
THEOREM RecordsWhatItSent == ForumSpec => []PostedIsSent
<1>1. ForumInv => PostedIsSent
  BY DEF ForumInv, PostsSound, SoundPost, PostedIsSent, Has
<1>. QED
  BY <1>1, ForumInvHolds, PTL

\* No edit of a post only updated in mode whole wipes, with the policy to skip,
\* what was written by hand before the edit was planned: the job under way
\* carries the text that was on the forum then.
THEOREM HandEditsSurvive == ForumSpec => ManualEditsKept
<1>. DEFINE Kept(p) ==
       posts[p].modes \subseteq {"whole"} /\ Busy({"edit"})
         /\ forum[p].text # forum[p].sent /\ forum'[p].text # forum[p].text
         => worker.base = forum[p].sent \/ forum'[p].sent = forum[p].sent
<1>1. ASSUME ForumTypes, ForumInv, [ForumNext]_forumVars, policy = "skip_alert", NEW p \in Posts
      PROVE  Kept(p)
  <2>. forum \in [Posts -> Shown] /\ forum[p] \in Shown
    BY <1>1 DEF ForumTypes
  <2>1. CASE forum' = forum
    BY <2>1
  <2>2. CASE \E q \in Posts : OnboardPost(q) \/ EditByHand(q)
    <3>1. PICK q \in Posts : OnboardPost(q) \/ EditByHand(q)
      BY <2>2
    <3>2. forum'[p].sent = forum[p].sent
      BY <3>1 DEF OnboardPost, EditByHand, Shown
    <3>. QED
      BY <3>2
  <2>3. CASE Succeed
    <3>. SUFFICES ASSUME posts[p].modes \subseteq {"whole"}, Busy({"edit"}), forum'[p].text # forum[p].text
                  PROVE  worker.base = forum[p].sent
      OBVIOUS
    <3>1. worker \in Jobs /\ IsJob(worker) /\ worker.kind = "edit"
      BY <1>1, <2>3, WorkersAnswer DEF Busy
    <3>2. p = worker.post
      BY <2>3 DEF Succeed
    <3>3. SoundJob(worker)
      BY <1>1, <3>1 DEF ForumInv, JobsSound, Held
    <3>. QED
      BY <1>1, <3>1, <3>2, <3>3 DEF SoundJob, Skips
  <2>4. CASE Fetch
    BY <2>4 DEF Fetch, Busy
  <2>7. CASE Misread
    <3>1. CASE forum' = [forum EXCEPT ![worker.post].misread = TRUE]
      BY <3>1 DEF Shown
    <3>2. CASE ~Busy({"edit"})
      BY <3>2
    <3>. QED
      BY <2>7, <3>1, <3>2 DEF Misread, Busy
  <2>5. CASE \E q \in Posts : PostNow(q) \/ UpdatePost(q)
    BY <1>1, <2>1, <2>5, UpdateKinds DEF PostNow
  <2>6. CASE Handle \/ Take \/ Refuse \/ UNCHANGED forumVars \/ \E cause \in {"upload", "template_edit"} : Regenerate(cause)
    BY <2>1, <2>6 DEF Handle, Take, Refuse, forumVars, Regenerate
  <2>. QED
    BY <1>1, <2>2, <2>3, <2>4, <2>5, <2>6, <2>7 DEF ForumNext, ForumWork
<1>2. ForumTypes /\ ForumInv /\ [ForumNext]_forumVars =>
        [policy = "skip_alert" => \A p \in Posts : Kept(p)]_forumVars
  BY <1>1
<1>. QED
  BY <1>2, ForumInvHolds, PTL DEF ForumSpec, ManualEditsKept
=============================================================================
