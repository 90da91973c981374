----------------------------- MODULE ForumPosting -----------------------------
(***************************************************************************)
(* Posts of galleries on forums: gui/forum_controller.py on the GUI        *)
(* thread, its table forum_posts, and the thread of                        *)
(* processing/forum_posting_worker.py, which talks to the forum.  The two  *)
(* share the queue of jobs and the signals that come back.  The cooldown   *)
(* between two jobs only delays and is left out; so is the forum a gallery *)
(* goes to, of which there is one.                                         *)
(***************************************************************************)
EXTENDS Naturals, Sequences

CONSTANTS
    Posts,          \* ids of forum_posts, in the order they are given
    MaxBodies,      \* bound on how often the BBCode changes
    Modes, Policies,    \* the update_mode and manual_edit_handling to try
    OwnConnection   \* the worker's lookups may use the database from its thread:
                    \* in the code they may not, which hides all that follows

ASSUME ForumAssumption ==
    /\ Posts \subseteq Nat /\ MaxBodies \in Nat \ {0}
    /\ Modes \subseteq {"whole", "surgical", "whole_then_surgical"}
    /\ Policies \subseteq {"skip_alert", "overwrite", "surgical"}
    /\ OwnConnection \in BOOLEAN

VARIABLES
    policy,         \* manual_edit_handling of the tab
    body,           \* which BBCode the gallery's artifact holds
    posts,          \* forum_posts: [status, stored, known]; stored: body_hash and
                    \* link map; known: posted_post_id is set; history: the modes
                    \* its updates were planned in
    forum,          \* [text]: what a post says; history: what this program last
                    \* wrote or read there (sent), and whether it has taken a page
                    \* for a success since that was none (misread)
    jobs,           \* _queues
    worker,         \* the job under way; of kind "none" when idle, "dead" when gone
    paused,         \* the forum is in _paused_forums
    signals         \* queued to the controller

forumVars == <<policy, body, posts, forum, jobs, worker, paused, signals>>

\* A text: the BBCode it was made from, and whether somebody edited it there.
\* Body 0 is no text, the last one that of a post made elsewhere.
Bodies == 1..MaxBodies
Theirs == MaxBodies + 1
NoText == [of |-> 0, edited |-> FALSE]
Rendered == [of |-> body, edited |-> FALSE]
Foreign == [of |-> Theirs, edited |-> FALSE]
Edited(t) == [t EXCEPT !.edited = TRUE]

Job(kind, p, text, base) == [kind |-> kind, post |-> p, text |-> text, base |-> base]
Signal(kind, p, text) == [kind |-> kind, post |-> p, text |-> text]
NoJob == Job("none", 0, NoText, NoText)
NewPost(status, text) == [status |-> status, stored |-> text, known |-> FALSE, modes |-> {}]

ForumInit ==
    /\ policy \in Policies
    /\ body = 1
    /\ posts = [p \in Posts |-> NewPost("none", NoText)]
    /\ forum = [p \in Posts |-> [text |-> NoText, sent |-> NoText, misread |-> FALSE]]
    /\ jobs = <<>> /\ worker = NoJob /\ paused = FALSE /\ signals = <<>>

-----------------------------------------------------------------------------
(* The controller.                                                         *)

Has(p, states) == posts[p].status \in states
NextPost(p) == Has(p, {"none"}) /\ \A q \in Posts : q < p => ~Has(q, {"none"})

\* _enqueue_post: the row is written before its job is queued.
EnqueuePost(p, table) ==
    /\ posts' = [table EXCEPT ![p] = NewPost("queued", Rendered)]
    /\ jobs' = Append(jobs, Job("post", p, Rendered, NoText))

\* The composer: post_now asks nothing.
PostNow(p) ==
    /\ NextPost(p) /\ EnqueuePost(p, posts)
    /\ UNCHANGED <<policy, body, forum, worker, paused, signals>>

\* onboard_post: a post that exists is taken over once it has been read.
OnboardPost(p) ==
    /\ NextPost(p)
    /\ posts' = [posts EXCEPT ![p].status = "queued"]
    /\ forum' = [forum EXCEPT ![p].text = Foreign]
    /\ jobs' = Append(jobs, Job("fetch", p, NoText, NoText))
    /\ UNCHANGED <<policy, body, worker, paused, signals>>

\* Mutant: a body that was already recorded needs no edit.
Plan_TrustsRecord(mode, stored, live) ==
    IF stored = Rendered THEN [action |-> "noop", text |-> NoText]
    ELSE [action |-> "edit", text |-> Rendered]

\* Mutant: the policy for manual edits is not asked.
Plan_Overwrites(mode, stored, live) == [action |-> "edit", text |-> Rendered]

\* plan_update.  The links of a text are those of the BBCode it was made from:
\* a surgical edit swaps the recorded links where the live text has them.
Plan(mode, stored, live) ==
    LET swap == stored.of # body
        surgical == [action |-> "edit", text |->
            IF live.of = stored.of THEN [live EXCEPT !.of = body] ELSE live]
        whole == [action |-> "edit", text |-> Rendered]
        skip == [action |-> "skip", text |-> NoText]
    IN  CASE mode = "surgical" ->
                IF swap THEN surgical ELSE [action |-> "noop", text |-> NoText]
          [] mode # "surgical" /\ (stored = live \/ policy = "overwrite") -> whole
          [] OTHER ->
                IF swap /\ (mode = "whole_then_surgical" \/ policy = "surgical")
                THEN surgical ELSE skip

\* update_post reads the live text at once, on the GUI thread, and records the
\* text to come before the worker has seen the edit.  The mode is what the user
\* picks for this update, or else what the post or its tab has: any of them.
UpdatePost(p) ==
    /\ Has(p, {"stale", "posted", "failed"})
    /\ \/ /\ posts' = [posts EXCEPT ![p].status = "stale"]
          /\ UNCHANGED jobs
       \/ /\ posts[p].known
          /\ \E mode \in Modes :
               LET live == forum[p].text
                   plan == Plan(mode, posts[p].stored, live)
                   planned == [posts EXCEPT ![p].modes = @ \cup {mode}]
               IN  IF plan.action = "edit"
                   THEN /\ posts' = [planned EXCEPT ![p].status = "updating",
                                                    ![p].stored = plan.text]
                        /\ jobs' = Append(jobs, Job("edit", p, plan.text, live))
                   ELSE /\ posts' = [planned EXCEPT ![p].status =
                                       IF plan.action = "noop" THEN "posted" ELSE "stale"]
                        /\ UNCHANGED jobs
    /\ UNCHANGED <<policy, body, forum, worker, paused, signals>>

\* The BBCode is made again, by an upload or by an edit of a template.
Regenerate(cause) ==
    /\ body < MaxBodies /\ body' = body + 1
    /\ signals' = Append(signals, Signal(cause, 0, NoText))
    /\ UNCHANGED <<policy, posts, forum, jobs, worker, paused>>

\* _on_bbcode_regenerated: posted rows are marked, and an upload is posted unless
\* a row is queued, posted or stale.
OnRegenerated(cause) ==
    LET marked == [p \in Posts |-> IF Has(p, {"posted"})
                                   THEN [posts[p] EXCEPT !.status = "stale"] ELSE posts[p]]
    IN  \/ /\ cause = "upload" /\ \A p \in Posts : ~Has(p, {"queued", "posted", "stale"})
           /\ \E p \in Posts : NextPost(p) /\ EnqueuePost(p, marked)
        \/ /\ \/ cause # "upload" \/ \E p \in Posts : Has(p, {"queued", "posted", "stale"})
              \/ ~\E p \in Posts : NextPost(p)
           /\ posts' = marked /\ UNCHANGED jobs

\* The handlers of the worker's answers.
OnAnswer(s) ==
    /\ posts' = [posts EXCEPT ![s.post] =
         CASE s.kind = "failed" -> [@ EXCEPT !.status = "failed"]
           [] s.kind = "fetched" -> [@ EXCEPT !.status = "posted", !.stored = s.text, !.known = TRUE]
           [] s.kind = "posted" -> [@ EXCEPT !.status = "posted", !.known = TRUE]
           [] s.kind = "edited" -> [@ EXCEPT !.status = "posted"]]
    /\ UNCHANGED jobs

Handle ==
    /\ signals # <<>> /\ signals' = Tail(signals)
    /\ LET s == Head(signals) IN
         IF s.kind \in {"upload", "template_edit"} THEN OnRegenerated(s.kind) ELSE OnAnswer(s)
    /\ UNCHANGED <<policy, body, forum, worker, paused>>

-----------------------------------------------------------------------------
(* The worker.                                                             *)

\* The first job asks the client and the cooldown of its forum over the
\* controller's connection, which only the GUI thread may use.
Take ==
    /\ worker = NoJob /\ jobs # <<>> /\ ~paused
    /\ jobs' = Tail(jobs)
    /\ worker' = IF OwnConnection THEN Head(jobs) ELSE [NoJob EXCEPT !.kind = "dead"]
    /\ UNCHANGED <<policy, body, posts, forum, paused, signals>>

Answer(kind, text) ==
    /\ worker' = NoJob /\ signals' = Append(signals, Signal(kind, worker.post, text))
    /\ UNCHANGED <<policy, body, posts, jobs>>

Busy(kinds) == worker.kind \in kinds
OnForum(text) == [text |-> text, sent |-> text, misread |-> FALSE]

\* A post or an edit that the forum took; the client may yet miss its answer.
Succeed ==
    /\ Busy({"post", "edit"}) /\ forum' = [forum EXCEPT ![worker.post] = OnForum(worker.text)]
    /\ \E heard \in BOOLEAN :
         Answer(IF ~heard THEN "failed" ELSE IF worker.kind = "post" THEN "posted" ELSE "edited",
                worker.text)
    /\ UNCHANGED paused

Fetch ==
    /\ Busy({"fetch"}) /\ Answer("fetched", forum[worker.post].text)
    /\ forum' = [forum EXCEPT ![worker.post] = OnForum(@.text)]
    /\ UNCHANGED paused

\* A login that is refused also pauses the forum, and nothing calls
\* resume_forum.
Refuse ==
    /\ Busy({"post", "edit", "fetch"}) /\ Answer("failed", NoText)
    /\ paused' \in {paused, TRUE} /\ UNCHANGED forum

\* An edit whose page has no form counts as a success, and so does a post whose
\* page links to some post: the row then names that one.
Misread ==
    /\ \/ Busy({"edit"}) /\ Answer("edited", NoText)
          /\ forum' = [forum EXCEPT ![worker.post].misread = TRUE]
       \/ Busy({"post"}) /\ Answer("posted", NoText)
          /\ forum' = [forum EXCEPT ![worker.post].text = Foreign, ![worker.post].misread = TRUE]
    /\ UNCHANGED paused

\* Somebody edits the post on the forum.
EditByHand(p) ==
    /\ forum[p].text # NoText /\ ~forum[p].text.edited
    /\ forum' = [forum EXCEPT ![p].text = Edited(@)]
    /\ UNCHANGED <<policy, body, posts, jobs, worker, paused, signals>>

ForumWork == Take \/ Succeed \/ Fetch \/ Refuse \/ Misread

ForumNext ==
    \/ \E p \in Posts : PostNow(p) \/ OnboardPost(p) \/ UpdatePost(p) \/ EditByHand(p)
    \/ \E cause \in {"upload", "template_edit"} : Regenerate(cause)
    \/ Handle \/ ForumWork

ForumSpec == ForumInit /\ [][ForumNext]_forumVars

\* The thread and the event loop run on.
ForumFairSpec == ForumSpec /\ WF_forumVars(Handle) /\ WF_forumVars(ForumWork)

-----------------------------------------------------------------------------

Texts == [of : 0..Theirs, edited : BOOLEAN]
Jobs == [kind : {"post", "edit", "fetch"}, post : Posts, text : Texts, base : Texts]

ForumTypeOK ==
    /\ posts \in [Posts -> [status : {"none", "queued", "updating", "posted", "stale", "failed"},
                            stored : Texts, known : BOOLEAN, modes : SUBSET Modes]]
    /\ forum \in [Posts -> [text : Texts, sent : Texts, misread : BOOLEAN]]
    /\ jobs \in Seq(Jobs) /\ worker \in Jobs \cup {NoJob, [NoJob EXCEPT !.kind = "dead"]}
    /\ body \in Bodies /\ paused \in BOOLEAN

\* A row that says posted has recorded the text that this program last left on
\* the forum, through lost answers, repeated updates and edits by hand: what
\* later counts as a manual edit is one.  A page taken for a success and an
\* update in surgical mode, which may find nothing to swap, void the promise.
PostedIsSent ==
    \A p \in Posts :
        Has(p, {"posted"}) /\ ~forum[p].misread /\ "surgical" \notin posts[p].modes
          => posts[p].stored = forum[p].sent

\* With the policy to skip, the edits of a post that is only updated in mode
\* whole wipe what somebody wrote on the forum only if they wrote it after the
\* update was planned; what was there then, since this program last read or
\* wrote the post, is kept.
ManualEditsKept ==
    [][ policy = "skip_alert" =>
          \A p \in Posts :
            posts[p].modes \subseteq {"whole"} /\ Busy({"edit"})
              /\ forum[p].text # forum[p].sent /\ forum'[p].text # forum[p].text
              => worker.base = forum[p].sent \/ forum'[p].sent = forum[p].sent ]_forumVars

\* update_post, of what it enqueues: "results arrive via worker signals".  Every
\* row that waits for the worker is settled, unless the forum is paused; the
\* worker's first look into the database raises instead, and ends its thread.
PostsAnswered ==
    \A p \in Posts : Has(p, {"queued", "updating"}) ~> (~Has(p, {"queued", "updating"}) \/ paused)

=============================================================================
