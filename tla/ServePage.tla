------------------------------ MODULE ServePage ------------------------------
(***************************************************************************)
(* The demo page of docling-serve (gradio_ui.py): a press of "Process URL" *)
(* or "Process File" runs a chain of callbacks that clears the page, sends *)
(* the sources to the asynchronous endpoint, and then polls for the task   *)
(* whose identifier the page holds and fetches its result, with retries.   *)
(* Callbacks follow each other whether or not the one before raised.       *)
(*                                                                         *)
(* All chains of one page share its components; all calls of               *)
(* wait_task_finish, of every page, share one queue of Gradio, which runs  *)
(* one at a time.                                                          *)
(*                                                                         *)
(* A run is one press of a button.  A submission is two steps, the server  *)
(* that takes it and the page that gets the answer, up to a minute later:  *)
(* other runs of the page go on in between.  Any other call of the server  *)
(* only reads, and is one step; its handler is in ServeTasks.  The         *)
(* callbacks that only show and hide parts of the page, the two kinds of   *)
(* sources, the pauses between calls and the rendering of the output are   *)
(* left out.  The page sends no tenant.                                    *)
(***************************************************************************)
EXTENDS TaskQueue

CONSTANTS
    Runs,
    Pages,          \* open browser pages
    PageOf,         \* PageOf[c]: the page whose button was pressed
    NoTask,         \* the empty task id
    MaxFetches,     \* max_retries of wait_task_finish
    SingleUse       \* single_use_results

ASSUME PageAssumption ==
    /\ PageOf \in [Runs -> Pages]
    /\ NoTask \notin Tasks
    /\ MaxFetches \in Nat \ {0}
    /\ SingleUse \in BOOLEAN

VARIABLES
    at,             \* at[c]: the callback that comes next
    box,            \* box[p]: task_id_rendered
    shown,          \* shown[p]: the task whose result the outputs show
    id,             \* id[c]: the task_id wait_task_finish was called with
    retries,        \* retry_count
    message,        \* message[c]: what the last gr.Error of c was about
    expiring,       \* tasks whose on_result_fetched is running
    sent,           \* sent[c]: the task the server made of c's submission
    answered,       \* history, from c's clearing of its page to its wait:
    cleared,        \* the runs whose answer the page got, that cleared it
    broken          \* broken[c]: fetches without a readable answer

page == <<box, shown>>
wait == <<id, retries, broken>>
since == <<answered, cleared>>
vars == <<status, at, page, wait, message, expiring, sent, since>>

MaybeTasks == Tasks \cup {NoTask}
Waiting == {c \in Runs : at[c] \in {"poll", "fetch"}}

TypeOK ==
    /\ QueueType
    /\ at \in [Runs -> {"off", "clear", "send", "reply", "show", "queue", "poll", "fetch", "end"}]
    /\ box \in [Pages -> MaybeTasks]
    /\ shown \in [Pages -> MaybeTasks]
    /\ id \in [Runs -> MaybeTasks]
    /\ retries \in [Runs -> 0 .. MaxFetches - 1]
    /\ message \in [Runs -> {"none", "send", "task", "result"}]
    /\ expiring \subseteq Tasks
    /\ sent \in [Runs -> MaybeTasks]
    /\ answered \in [Runs -> SUBSET Runs]
    /\ cleared \in [Runs -> SUBSET Runs]
    /\ broken \in [Runs -> 0 .. MaxFetches]
    /\ \A c, d \in Waiting : c = d

Init ==
    /\ QueueInit
    /\ at = [c \in Runs |-> "off"]
    /\ box = [p \in Pages |-> NoTask]
    /\ shown = [p \in Pages |-> NoTask]
    /\ id = [c \in Runs |-> NoTask]
    /\ retries = [c \in Runs |-> 0]
    /\ message = [c \in Runs |-> "none"]
    /\ expiring = {}
    /\ sent = [c \in Runs |-> NoTask]
    /\ answered = [c \in Runs |-> {}]
    /\ cleared = [c \in Runs |-> {}]
    /\ broken = [c \in Runs |-> 0]

-----------------------------------------------------------------------------
Goto(c, from, to) ==
    /\ at[c] = from
    /\ at' = [at EXCEPT ![c] = to]

\* gr.Error
Raise(c, about) == message' = [message EXCEPT ![c] = about]

Press(c) ==
    /\ Goto(c, "off", "clear")
    /\ UNCHANGED <<status, page, wait, message, expiring, sent, since>>

\* The runs of c's page that have cleared it and do not wait yet.
Beside(c) == {d \in Runs : PageOf[d] = PageOf[c] /\ at[d] \in {"send", "reply", "show"}}

Cleared(c) ==
    /\ answered' = [answered EXCEPT ![c] = {}]
    /\ cleared' = [d \in Runs |->
          IF d = c THEN {} ELSE IF d \in Beside(c) THEN cleared[d] \cup {c} ELSE cleared[d]]

\* Broken: the outputs are cleared, the task id is not.
ClearOutputsOnly(c) ==
    /\ Goto(c, "clear", "send")
    /\ shown' = [shown EXCEPT ![PageOf[c]] = NoTask]
    /\ Cleared(c)
    /\ UNCHANGED <<status, box, wait, message, expiring, sent>>

Clear(c) ==
    /\ Goto(c, "clear", "send")
    /\ box' = [box EXCEPT ![PageOf[c]] = NoTask]
    /\ shown' = [shown EXCEPT ![PageOf[c]] = NoTask]
    /\ Cleared(c)
    /\ UNCHANGED <<status, wait, message, expiring, sent>>

\* The reset buttons list every output, but not the task id.
Reset(p) ==
    /\ shown' = [shown EXCEPT ![p] = NoTask]
    /\ UNCHANGED <<status, at, box, wait, message, expiring, sent, since>>

-----------------------------------------------------------------------------
(* process_url, process_file *)

\* The server takes the submission.
Post(c, t) ==
    /\ Goto(c, "send", "reply")
    /\ Accept(t)
    /\ sent' = [sent EXCEPT ![c] = t]
    /\ UNCHANGED <<page, wait, message, expiring, since>>

\* The answer reaches the page, whatever the page has been used for since.
Receive(c) ==
    /\ Goto(c, "reply", "show")
    /\ box' = [box EXCEPT ![PageOf[c]] = sent[c]]
    /\ answered' = [d \in Runs |-> IF d \in Beside(c) THEN answered[d] \cup {c} ELSE answered[d]]
    /\ UNCHANGED <<status, shown, wait, message, expiring, sent, cleared>>

\* No answer within the timeout: the task exists, the page does not know it.
SendLost(c) ==
    /\ Goto(c, "reply", "show")
    /\ Raise(c, "send")
    /\ UNCHANGED <<status, page, wait, expiring, sent, since>>

\* No sources, no connection, or an answer other than 200.
SendFails(c) ==
    /\ Goto(c, "send", "show")
    /\ Raise(c, "send")
    /\ UNCHANGED <<status, page, wait, expiring, sent, since>>

-----------------------------------------------------------------------------
(* wait_task_finish *)

\* The page posts the inputs of the next callback when one has ended.
Ask(c) ==
    /\ Goto(c, "show", "queue")
    /\ id' = [id EXCEPT ![c] = box[PageOf[c]]]
    /\ UNCHANGED <<status, page, retries, broken, message, expiring, sent, since>>

\* One call at a time, of all pages.
Enter(c) ==
    /\ Waiting = {}
    /\ Goto(c, "queue", "poll")
    /\ UNCHANGED <<status, page, wait, message, expiring, sent, since>>

\* There is no task with this identifier, or no identifier.
Missing(c) == id[c] \notin {t \in Tasks : Found(t)}

Succeeded(c) == ~Missing(c) /\ status[id[c]] = "success"

\* A task that is not found counts as completed.  Any other status is polled
\* again.
PollOver(c) ==
    /\ Missing(c) \/ Succeeded(c)
    /\ Goto(c, "poll", "fetch")
    /\ UNCHANGED <<status, page, wait, message, expiring, sent, since>>

\* Broken: the end of a failed task is not noticed.
PollFailureAgain(c) ==
    /\ ~Missing(c) /\ status[id[c]] = "failure"
    /\ at[c] = "poll"
    /\ UNCHANGED vars

PollFailure(c) ==
    /\ ~Missing(c) /\ status[id[c]] = "failure"
    /\ Goto(c, "poll", "end")
    /\ Raise(c, "task")
    /\ UNCHANGED <<status, page, wait, expiring, sent, since>>

\* A poll that fails for any other reason is not tried again.
PollFails(c) ==
    /\ Goto(c, "poll", "end")
    /\ Raise(c, "task")
    /\ UNCHANGED <<status, page, wait, expiring, sent, since>>

\* The result endpoint schedules the removal of what it returns.
Fetched(c) ==
    expiring' = IF SingleUse /\ Succeeded(c) THEN expiring \cup {id[c]} ELSE expiring

FetchShows(c) ==
    /\ Succeeded(c)
    /\ Goto(c, "fetch", "end")
    /\ Fetched(c)
    /\ shown' = [shown EXCEPT ![PageOf[c]] = id[c]]
    /\ UNCHANGED <<status, box, wait, message, sent, since>>

\* Broken: one attempt less.
RetryLess(c) ==
    \/ /\ retries[c] + 1 < MaxFetches - 1
       /\ Goto(c, "fetch", "fetch")
       /\ retries' = [retries EXCEPT ![c] = @ + 1]
       /\ UNCHANGED message
    \/ /\ retries[c] + 1 >= MaxFetches - 1
       /\ Goto(c, "fetch", "end")
       /\ Raise(c, "result")
       /\ UNCHANGED retries

\* The last attempt raises, the others count.
Retry(c) ==
    \/ /\ retries[c] + 1 < MaxFetches
       /\ Goto(c, "fetch", "fetch")
       /\ retries' = [retries EXCEPT ![c] = @ + 1]
       /\ UNCHANGED message
    \/ /\ retries[c] + 1 >= MaxFetches
       /\ Goto(c, "fetch", "end")
       /\ Raise(c, "result")
       /\ UNCHANGED retries

FetchMissing(c) ==
    /\ ~Succeeded(c)
    /\ Retry(c)
    /\ UNCHANGED <<status, page, id, broken, expiring, sent, since>>

\* No answer, or one that cannot be read: an error, or a result of the other
\* kind because return_as_file was changed meanwhile.  The server may have
\* returned the result all the same.
FetchBreaks(c) ==
    /\ Retry(c)
    /\ broken' = [broken EXCEPT ![c] = @ + 1]
    /\ Fetched(c) \/ UNCHANGED expiring
    /\ UNCHANGED <<status, page, id, sent, since>>

-----------------------------------------------------------------------------
(* The server *)

\* Another client, or a submission of a page that has given it up.
Late(t) ==
    /\ Accept(t)
    /\ UNCHANGED <<at, page, wait, message, expiring, sent, since>>

Work(t) ==
    /\ Start(t) \/ Complete(t)
    /\ UNCHANGED <<at, page, wait, message, expiring, sent, since>>

\* on_result_fetched, after result_removal_delay.
Expire(t) ==
    /\ t \in expiring
    /\ expiring' = expiring \ {t}
    /\ status' = [status EXCEPT ![t] = IF @ \in Completed THEN "removed" ELSE @]
    /\ UNCHANGED <<at, page, wait, message, sent, since>>

\* clear_results, or the time to live of a result.
Clean(t) ==
    /\ Remove(t)
    /\ UNCHANGED <<at, page, wait, message, expiring, sent, since>>

-----------------------------------------------------------------------------
Callback(c) ==
    \/ Clear(c) \/ SendFails(c) \/ (\E t \in Tasks : Post(c, t)) \/ Receive(c) \/ SendLost(c)
    \/ Ask(c) \/ Enter(c) \/ PollOver(c) \/ PollFailure(c) \/ PollFails(c)
    \/ FetchShows(c) \/ FetchMissing(c) \/ FetchBreaks(c)

Next ==
    \/ \E c \in Runs : Press(c) \/ Callback(c)
    \/ \E p \in Pages : Reset(p)
    \/ \E t \in Tasks : Late(t) \/ Work(t) \/ Expire(t) \/ Clean(t)

Spec == Init /\ [][Next]_vars

(***************************************************************************)
(* Fairness.  Gradio runs the callbacks of a page that stays open, and the *)
(* calls of the server have timeouts.  A poll is only certain to find an   *)
(* end that does not go away: none of the failures above is relied on.     *)
(***************************************************************************)
Proceed(c) ==
    \/ Clear(c) \/ SendFails(c) \/ (\E t \in Tasks : Post(c, t)) \/ Receive(c)
    \/ Ask(c) \/ Enter(c) \/ PollOver(c) \/ PollFailure(c)
    \/ FetchShows(c) \/ FetchMissing(c)

FairSpec == Spec /\ \A c \in Runs : WF_vars(Proceed(c))

-----------------------------------------------------------------------------
(* Properties. *)

\* A run waits for nothing, or for a task whose submission was answered to its
\* page after the run had cleared it: a failed submission never brings back
\* the result of a run that was through, although the chain goes on after the
\* error and a reset leaves the identifier where it is.  If no other run has
\* cleared the page or been answered meanwhile, the task is the run's own;
\* otherwise it may be one that was sent before the page was cleared.
WaitsForItsOwn ==
    \A c \in Runs : at[c] \in {"queue", "poll", "fetch", "end"} =>
        /\ id[c] \in {sent[d] : d \in answered[c]} \cup {NoTask}
        /\ answered[c] \cup cleared[c] \subseteq {c} =>
               id[c] = IF c \in answered[c] THEN sent[c] ELSE NoTask

\* A page gives up on a result only if the task went away, or never came
\* about, or each of its attempts got no readable answer: one lost response
\* does not lose a result that the server still has.
GivesUpForAReason ==
    \A c \in Runs :
        message[c] = "result" /\ ~Missing(c) => broken[c] = MaxFetches

\* As long as tasks end, so does every run, whatever the pages before it in
\* the queue are waiting for.
RunsEnd ==
    []<>(\A t \in Tasks : status[t] \notin {"pending", "started"})
        => \A c \in Runs : (at[c] # "off") ~> (at[c] = "end")

=============================================================================
