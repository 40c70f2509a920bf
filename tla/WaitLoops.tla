----------------------------- MODULE WaitLoops -----------------------------
(***************************************************************************)
(* The GET requests that wait: the coroutines wait_* of service/state.py,  *)
(* started by HTTPProtocol._on_get, whose result _on_get_done turns into   *)
(* the HTTP answer.  All five have the same loop:                          *)
(*                                                                         *)
(*     for _ in range(timeout):                                            *)
(*         if <found>: return ...                                          *)
(*         await asyncio.sleep(1)                                          *)
(*     raise WaitTimeout()                                                 *)
(*                                                                         *)
(* A turn of the loop up to its await is one action.  Between two turns    *)
(* the event loop runs whatever else is ready: any operation of the broker *)
(* and any other wait.  Durations are abstracted: a sleep ends some time.  *)
(***************************************************************************)
EXTENDS BrokerState

CONSTANTS
    Waiters,    \* GET requests: each is made once
    Targets,    \* what they may wait for
    Timeout     \* timeout=10, the number of checks

VARIABLES wait, answer

waitVars == <<brokerVars, wait, answer>>

Target ==
    [on : {"acknowledged", "not_acknowledged", "requeued"}, dtag : DeliveryTags]
    \cup [on : {"authentication"}, user : Users]
    \cup [on : {"queue_bound"}, queue : Queues, exchange : Exchanges]

ASSUME WaitAssumption == Targets \subseteq Target /\ Timeout \in Nat \ {0}

\* None until the GET; then how many turns it has slept.
NotAsked == [polls |-> 0]
Wait == {NotAsked} \cup [target : Targets, polls : 0 .. Timeout]

Asked(w) == wait[w] # NotAsked
Answered(w) == answer[w] # 0
Waiting(w) == Asked(w) /\ ~Answered(w)

-----------------------------------------------------------------------------
\* Regression: the wait for a requeue reads the set of the plain rejections.
Found_wrong_set(g) ==
    CASE g.on = "acknowledged"     -> g.dtag \in message_acknowledged
      [] g.on = "not_acknowledged" -> g.dtag \in message_not_acknowledged
      [] g.on = "requeued"         -> g.dtag \in message_not_acknowledged
      [] g.on = "authentication"   -> g.user \in DOMAIN authentication_tried_on
      [] g.on = "queue_bound"      -> g.queue \in BoundTo(g.exchange)

\* The condition tested at each turn.
Found(g) ==
    CASE g.on = "acknowledged"     -> g.dtag \in message_acknowledged
      [] g.on = "not_acknowledged" -> g.dtag \in message_not_acknowledged
      [] g.on = "requeued"         -> g.dtag \in message_requeued
      [] g.on = "authentication"   -> g.user \in DOMAIN authentication_tried_on
      [] g.on = "queue_bound"      -> g.queue \in BoundTo(g.exchange)

\* _on_get_done: only the result of an authentication may be False.
Status(g) ==
    IF g.on = "authentication" /\ ~authentication_tried_on[g.user] THEN 403 ELSE 204

WaitInit ==
    /\ BrokerInit
    /\ wait = [w \in Waiters |-> NotAsked]
    /\ answer = [w \in Waiters |-> 0]

\* ensure_future: the coroutine first runs in a later turn of the event loop.
Get(w) ==
    /\ ~Asked(w)
    /\ \E g \in Targets : wait' = [wait EXCEPT ![w] = [target |-> g, polls |-> 0]]
    /\ UNCHANGED <<brokerVars, answer>>

Reply(w, status) == answer' = [answer EXCEPT ![w] = status] /\ UNCHANGED wait

\* Regression: each turn sleeps before it looks, and the last does not look.
Poll_sleeps_first(w) ==
    /\ Waiting(w)
    /\ IF wait[w].polls + 1 = Timeout THEN Reply(w, 504)
       ELSE IF wait[w].polls > 0 /\ Found(wait[w].target)
       THEN Reply(w, Status(wait[w].target))
       ELSE wait' = [wait EXCEPT ![w].polls = @ + 1] /\ UNCHANGED answer
    /\ UNCHANGED brokerVars

\* Regression: the turns are not counted.
Poll_forever(w) ==
    /\ Waiting(w)
    /\ IF Found(wait[w].target) THEN Reply(w, Status(wait[w].target))
       ELSE UNCHANGED <<wait, answer>>
    /\ UNCHANGED brokerVars

\* Regression: the last turn does not look.
Poll_skips_last(w) ==
    /\ Waiting(w)
    /\ IF wait[w].polls = Timeout THEN Reply(w, 504)
       ELSE IF wait[w].polls + 1 < Timeout /\ Found(wait[w].target)
       THEN Reply(w, Status(wait[w].target))
       ELSE wait' = [wait EXCEPT ![w].polls = @ + 1] /\ UNCHANGED answer
    /\ UNCHANGED brokerVars

\* A turn of the loop.  After the last sleep nothing is looked at again.
Poll(w) ==
    /\ Waiting(w)
    /\ IF wait[w].polls = Timeout THEN Reply(w, 504)
       ELSE IF Found(wait[w].target) THEN Reply(w, Status(wait[w].target))
       ELSE wait' = [wait EXCEPT ![w].polls = @ + 1] /\ UNCHANGED answer
    /\ UNCHANGED brokerVars

WaitNext ==
    \/ BrokerNext /\ UNCHANGED <<wait, answer>>
    \/ \E w \in Waiters : Get(w) \/ Poll(w)

WaitSpec == WaitInit /\ [][WaitNext]_waitVars

\* The event loop resumes a coroutine whose sleep has ended.
WaitFairness == \A w \in Waiters : WF_waitVars(Poll(w))

-----------------------------------------------------------------------------
(* Properties *)

\* Waiting is bounded and settles once: an answered wait has its target, a
\* timeout is given only after all the turns.
WaitTypeOK ==
    /\ wait \in [Waiters -> Wait]
    /\ answer \in [Waiters -> {0, 204, 403, 504}]
    /\ \A w \in Waiters : answer[w] # 0 => Asked(w)
    /\ \A w \in Waiters : answer[w] = 504 => wait[w].polls = Timeout

\* Every wait is answered in the end (state.py:352-401), whatever settles, is
\* flushed or is waited for by others in between.
EveryWaitAnswered == \A w \in Waiters : Waiting(w) ~> Answered(w)

\* What w waits for is there.
There(w) == IF Waiting(w) THEN Found(wait[w].target) ELSE FALSE

\* "if the message has already been consumed before the call, the call directly
\* returns" (README.md:71-73): what is there while a turn is left is answered, unless
\* it is flushed before that turn.  The wait does not time out over it.
RecordedIsReported ==
    \A w \in Waiters :
        (There(w) /\ wait[w].polls < Timeout)
            ~> (answer[w] \in {204, 403} \/ (Waiting(w) /\ ~There(w)))

\* The waits are not confused (README.md:71-73): a success is answered for the very
\* settlement, tag, user or binding that was asked for, and is true at that moment.
AnswerIsForTarget ==
    [][\A w \in Waiters :
          (answer'[w] = 204 /\ answer[w] # 204) =>
              LET g == wait[w].target IN
              /\ g.on = "acknowledged" => g.dtag \in message_acknowledged
              /\ g.on = "not_acknowledged" => g.dtag \in message_not_acknowledged
              /\ g.on = "requeued" => g.dtag \in message_requeued
              /\ g.on = "authentication" => authentication_tried_on[g.user]
              /\ g.on = "queue_bound" =>
                    /\ g.queue \in BoundTo(g.exchange)
                    /\ g.exchange \in DOMAIN exchanges /\ g.queue \in DOMAIN queues]_waitVars

\* "this call will block until the given delivery tag was acknowledged as consumed
\* by a worker" (README.md:71): it does not return a timeout for a delivery that is
\* acknowledged when the answer is written.
TimeoutMeansNotAcknowledged ==
    [][\A w \in Waiters :
          (answer'[w] = 504 /\ answer[w] # 504 /\ wait[w].target.on = "acknowledged")
              => wait[w].target.dtag \notin message_acknowledged]_waitVars
=============================================================================
