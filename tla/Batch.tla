--------------------------------- MODULE Batch ---------------------------------
(***************************************************************************)
(* BatchClient: one call of evaluateEvaluations.  A sender thread takes     *)
(* batches from the factory and sends them, the caller iterates over the    *)
(* results, event threads process what the workers send, and a watchdog     *)
(* reboots devices that do not answer.  All share the lock result_cv, which *)
(* both generators hold while they are suspended at a yield.                *)
(***************************************************************************)
EXTENDS Integers, FiniteSets, SequencesExt

CONSTANTS
    Serials,        \* reserved devices
    Evaluations,    \* the list of evaluations, in the caller's order
    SerialsOf,      \* the set of serials of each evaluation
    BatchSize,      \* batch_size
    TargetBatches,  \* target_batches
    Factory,        \* which AbstractBatchFactory is used
    Losses,         \* whether a request may be lost, or never be answered
    None

Factories == {"quick", "patient", "balanced"}

ASSUME EvaluationsAssumption ==
    /\ Evaluations \in Seq(Range(Evaluations)) /\ IsInjective(Evaluations)
    /\ SerialsOf \in [Range(Evaluations) -> (SUBSET Serials) \ {{}}]
    /\ IsFiniteSet(Serials)
ASSUME SizesAssumption == BatchSize \in Nat \ {0} /\ TargetBatches \in Nat \ {0}
ASSUME FactoryAssumption == Factory \in Factories /\ Losses \in BOOLEAN

Pairs == {p \in Serials \X Range(Evaluations) : p[1] \in SerialsOf[p[2]]}

VARIABLES
    queue,      \* what is left in EvaluationBundle.queue
    empty,      \* EvaluationBundle.empty
    lock,       \* holder of result_cv between two steps
    sender,     \* where the sender thread is
    batch,      \* the evaluations of its batch
    receiver,   \* where the caller's iteration over getResults is
    results,    \* results to be yielded
    awaiting,   \* awaiting_results
    watchdog,   \* where the watchdog thread is
    expired,    \* devices it reboots
    failing,    \* pairs it reports as failed
    broken,     \* broken_serials
    sent,       \* requests that reached a worker which answers them
    yielded     \* how often each pair was yielded

bundle == <<queue, empty>>
client == <<lock, sender, batch, receiver>>
monitor == <<watchdog, expired, failing, broken>>
vars == <<bundle, client, results, awaiting, monitor, sent, yielded>>

-----------------------------------------------------------------------------
(* EvaluationBundle.  MappedQueues has a queue for each set of serials.     *)

Of(S, k) == {e \in S : SerialsOf[e] = k}

Keys == {SerialsOf[e] : e \in Range(Evaluations)}

\* A queue has its evaluations in the order of the list ...
ListedBefore(e, f) == \E i, j \in DOMAIN Evaluations :
                          i < j /\ Evaluations[i] = e /\ Evaluations[j] = f

\* ... and the dict has its keys in the order in which they were first used.
UsedBefore(k, l) == \E i \in DOMAIN Evaluations :
    /\ SerialsOf[Evaluations[i]] = k
    /\ \A j \in 1..i : SerialsOf[Evaluations[j]] # l

\* MappedQueues.keys: takewhile, so the keys before the first empty one.
LiveKeys(q) == {k \in Keys : \A l \in Keys : l = k \/ UsedBefore(l, k) => Of(q, l) # {}}

\* sorted(..., key=len), which is stable.
SearchedBefore(k, l) ==
    \/ Cardinality(k) < Cardinality(l)
    \/ Cardinality(k) = Cardinality(l) /\ UsedBefore(k, l)

\* Mutant: the evaluations of other sets of serials are not counted.
FilledByKey(b, k, s) == Cardinality(Of(b, k))

\* serial_amounts[s] after key k.
Filled(b, k, s) == Cardinality({e \in b : /\ s \in SerialsOf[e]
                                          /\ SerialsOf[e] = k \/ SearchedBefore(SerialsOf[e], k)})

\* b is the next batch: it has the last evaluations of each live key, as many as there
\* are slots left for all of its serials.
IsBatch(b, q) ==
    /\ \A e \in b : SerialsOf[e] \in LiveKeys(q)
    /\ \A k \in LiveKeys(q) :
          /\ \A e \in Of(b, k), f \in Of(q \ b, k) : ListedBefore(f, e)
          /\ \A s \in k : Filled(b, k, s) <= BatchSize
          /\ Of(q \ b, k) = {} \/ \E s \in k : Filled(b, k, s) = BatchSize

-----------------------------------------------------------------------------
(* The sender thread: getBatches and evaluate_batches.                     *)

\* The bundle is used without the lock.
SenderNext ==
    /\ sender = "next"
    /\ \E b \in SUBSET queue :
          /\ IsBatch(b, queue)
          /\ batch' = b
          /\ queue' = queue \ b
          /\ empty' = (b = {})
          /\ sender' = IF b = {} THEN "done" ELSE "wait"
    /\ UNCHANGED <<lock, receiver, results, awaiting, monitor, sent, yielded>>

Highest == CHOOSE n \in {Cardinality(awaiting[s]) : s \in Serials} :
              \A s \in Serials : Cardinality(awaiting[s]) <= n

Idle == \A s \in Serials : awaiting[s] = {}

\* Mutant: the threshold is passed by one batch.
ReadyLate ==
    CASE Factory = "quick" -> TRUE
      [] Factory = "patient" -> Idle
      [] Factory = "balanced" -> Idle \/ TargetBatches + 1 # Highest \div BatchSize

\* _readyForBatch
Ready ==
    CASE Factory = "quick" -> TRUE
      [] Factory = "patient" -> Idle
      [] Factory = "balanced" -> Idle \/ TargetBatches # Highest \div BatchSize

BatchPairs == {p \in Pairs : p[2] \in batch}

\* Mutant: a device that broke before is waited for.
SenderAddsAll ==
    /\ sender = "wait"
    /\ lock = None
    /\ Ready
    /\ awaiting' = [s \in Serials |->
                       awaiting[s] \cup {e \in Range(Evaluations) : <<s, e>> \in BatchPairs}]
    /\ lock' = "sender"
    /\ sender' = "send"
    /\ UNCHANGED <<bundle, batch, receiver, results, monitor, sent, yielded>>

\* _addBatch: what is for a broken device is answered at once.
SenderAdds ==
    /\ sender = "wait"
    /\ lock = None
    /\ Ready
    /\ LET bad == {p \in BatchPairs : p[1] \in broken}
       IN  /\ awaiting' = [s \in Serials |-> awaiting[s] \cup
                 {e \in Range(Evaluations) : <<s, e>> \in BatchPairs \ bad}]
           /\ results' = results \o SetToSeq(bad)
    /\ lock' = "sender"
    /\ sender' = "send"
    /\ UNCHANGED <<bundle, batch, receiver, monitor, sent, yielded>>

\* evaluate_batches sends while getBatches is suspended, with the lock.
SenderSends ==
    /\ sender = "send"
    /\ \E lost \in {{}} \cup (IF Losses THEN SUBSET BatchPairs ELSE {}) :
          sent' = sent \cup {p \in BatchPairs \ lost : p[1] \notin broken}
    /\ lock' = None
    /\ sender' = "next"
    /\ UNCHANGED <<bundle, batch, receiver, results, awaiting, monitor, yielded>>

-----------------------------------------------------------------------------
(* Results.                                                                *)

\* Mutant: awaiting_results is not consulted.
ProcessAny(p) ==
    /\ awaiting' = [awaiting EXCEPT ![p[1]] = @ \ {p[2]}]
    /\ results' = Append(results, p)

\* processResult
Process(p) ==
    IF p[2] \in awaiting[p[1]]
    THEN /\ awaiting' = [awaiting EXCEPT ![p[1]] = @ \ {p[2]}]
         /\ results' = Append(results, p)
    ELSE UNCHANGED <<awaiting, results>>

\* A "results" event; a worker may answer more than once, or too late.
Answer(p) ==
    /\ p \in sent
    /\ lock = None
    /\ receiver # "done"
    /\ Process(p)
    /\ UNCHANGED <<bundle, client, monitor, sent, yielded>>

\* getResults waits for results ...
ReceiverWakes ==
    /\ receiver = "wait"
    /\ lock = None
    /\ results # <<>>
    /\ lock' = "receiver"
    /\ receiver' = "yield"
    /\ UNCHANGED <<bundle, sender, batch, results, awaiting, monitor, sent, yielded>>

\* ... yields them one by one with the lock ...
ReceiverYields ==
    /\ receiver = "yield"
    /\ results # <<>>
    /\ yielded' = [yielded EXCEPT ![Head(results)] = @ + 1]
    /\ results' = Tail(results)
    /\ UNCHANGED <<bundle, client, awaiting, monitor, sent>>

\* Mutant: getResults does not ask whether devices are awaited.
ReceiverChecksEmpty ==
    /\ receiver = "yield"
    /\ results = <<>>
    /\ receiver' = IF empty THEN "done" ELSE "wait"
    /\ lock' = None
    /\ UNCHANGED <<bundle, sender, batch, results, awaiting, monitor, sent, yielded>>

\* ... and returns when the bundle is empty and nothing is awaited.
ReceiverChecks ==
    /\ receiver = "yield"
    /\ results = <<>>
    /\ receiver' = IF empty /\ Idle THEN "done" ELSE "wait"
    /\ lock' = None
    /\ UNCHANGED <<bundle, sender, batch, results, awaiting, monitor, sent, yielded>>

-----------------------------------------------------------------------------
(* The watchdog.                                                           *)

\* Devices that answered nothing for result_timeout are rebooted; the client
\* waits for their "initialized" with the lock.
WatchdogReboots ==
    /\ watchdog = "sleep"
    /\ lock = None
    /\ \E S \in SUBSET {s \in Serials \ broken : awaiting[s] # {}} :
          S # {} /\ expired' = S
    /\ watchdog' = "reboot"
    /\ lock' = "watchdog"
    /\ UNCHANGED <<bundle, sender, batch, receiver, results, awaiting, failing, broken,
                   sent, yielded>>

\* reboot returns the set of the devices that it still waits for, ...
WatchdogWakes ==
    /\ watchdog = "reboot"
    /\ \E F \in SUBSET expired : expired' = F
    /\ watchdog' = "end"
    /\ UNCHANGED <<bundle, client, results, awaiting, failing, broken, sent, yielded>>

\* ... and each of these is ended with a call to the control server and given up.
WatchdogEnds(s) ==
    /\ watchdog = "end"
    /\ s \in expired \ broken
    /\ broken' = broken \cup {s}
    /\ failing' = failing \cup {p \in Pairs : p[1] = s /\ p[2] \in awaiting[s]}
    /\ UNCHANGED <<bundle, client, results, awaiting, watchdog, expired, sent, yielded>>

WatchdogDone ==
    /\ watchdog = "end"
    /\ expired \subseteq broken
    /\ watchdog' = "fail"
    /\ expired' = {}
    /\ lock' = None
    /\ UNCHANGED <<bundle, sender, batch, receiver, results, awaiting, failing, broken,
                   sent, yielded>>

\* The set is the one that "initialized" still discards from: a device that comes back
\* during one of these calls changes it under the loop, the loop raises, and with the
\* thread goes what it was to report.
WatchdogDies ==
    /\ watchdog = "end"
    /\ expired # {}
    /\ watchdog' = "dead"
    /\ failing' = {}
    /\ lock' = None
    /\ UNCHANGED <<bundle, sender, batch, receiver, results, awaiting, expired, broken,
                   sent, yielded>>

\* What they were to evaluate is reported once the lock is released.
WatchdogFails ==
    /\ watchdog = "fail"
    /\ lock = None
    /\ \/ \E p \in failing :
             /\ Process(p)
             /\ failing' = failing \ {p}
             /\ UNCHANGED watchdog
       \/ /\ failing = {}
          /\ watchdog' = IF receiver = "done" THEN "stopped" ELSE "sleep"
          /\ UNCHANGED <<awaiting, results, failing>>
    /\ UNCHANGED <<bundle, client, expired, broken, sent, yielded>>

-----------------------------------------------------------------------------
Init ==
    /\ queue = Range(Evaluations) /\ empty = FALSE
    /\ lock = None /\ sender = "next" /\ batch = {}
    /\ receiver = "wait" /\ results = <<>>
    /\ awaiting = [s \in Serials |-> {}]
    /\ watchdog = "sleep" /\ expired = {} /\ failing = {} /\ broken = {}
    /\ sent = {} /\ yielded = [p \in Pairs |-> 0]

SenderStep == SenderNext \/ SenderAdds \/ SenderSends
ReceiverStep == ReceiverWakes \/ ReceiverYields \/ ReceiverChecks
WatchdogStep ==
    \/ WatchdogWakes \/ WatchdogDone \/ WatchdogDies \/ WatchdogFails
    \/ \E s \in Serials : WatchdogEnds(s)

Next ==
    \/ SenderStep \/ ReceiverStep \/ WatchdogReboots \/ WatchdogStep
    \/ \E p \in Pairs : Answer(p)

Spec == Init /\ [][Next]_vars

(* Fairness: each thread that wants the lock gets it in the end, the caller *)
(* iterates, and requests that were not lost are answered, unless the      *)
(* device was ended.                                                       *)
Fairness ==
    /\ SF_vars(SenderStep) /\ SF_vars(ReceiverStep) /\ SF_vars(WatchdogStep)
    /\ \A p \in Pairs : SF_vars(p[1] \notin broken /\ Answer(p))

FairSpec == Spec /\ Fairness

-----------------------------------------------------------------------------
(* Properties.                                                             *)

\* Type invariant; no device has more than batch_size evaluations in a batch.
TypeOK ==
    /\ queue \in SUBSET Range(Evaluations) /\ empty \in BOOLEAN
    /\ lock \in {None, "sender", "receiver", "watchdog"}
    /\ sender \in {"next", "wait", "send", "done"}
    /\ batch \in SUBSET Range(Evaluations)
    /\ \A s \in Serials : Cardinality({e \in batch : s \in SerialsOf[e]}) <= BatchSize
    /\ receiver \in {"wait", "yield", "done"}
    /\ results \in Seq(Pairs)
    /\ awaiting \in [Serials -> SUBSET Range(Evaluations)]
    /\ watchdog \in {"sleep", "reboot", "end", "fail", "stopped", "dead"}
    /\ expired \in SUBSET Serials /\ failing \in SUBSET Pairs /\ broken \in SUBSET Serials
    /\ sent \in SUBSET Pairs /\ yielded \in [Pairs -> Nat]

\* A pair has one result, even when a device that was given up answers late and
\* the watchdog reports the same evaluation as failed.
YieldedOnce == \A p \in Pairs : yielded[p] <= 1

\* When getResults returns, what has no result was never taken from the bundle: no
\* evaluation is lost between a batch, a device, the watchdog and the caller.
OnlyBundleIsLeft == receiver = "done" => \A p \in Pairs : yielded[p] > 0 \/ p[2] \in queue

\* When getResults returns, the caller has had a result for every evaluation on every
\* one of its devices.  It fails when a set of serials that has evaluations left comes
\* after one that has none (MappedQueues.__iter__).
Complete == receiver = "done" => \A p \in Pairs : yielded[p] > 0

\* A BalancedBatchFactory never has target_batches + 1 full batches waiting at a
\* device.
Balanced == Factory = "balanced" =>
    \A s \in Serials : Cardinality(awaiting[s]) < (TargetBatches + 1) * BatchSize

\* The watchdog ended s and died before it could report that.
Abandoned(s) == watchdog = "dead" /\ s \in expired \cap broken

\* Liveness: an evaluation that reached its device gives the caller a result, with
\* the lock changing hands between the sender, the caller and the event threads, and
\* a device that was given up is not waited for; but for a device that the watchdog
\* had ended when its thread died, whose evaluations stay awaited for ever.
Answered ==
    /\ \A p \in Pairs : (p \in sent) ~> (yielded[p] > 0 \/ Abandoned(p[1]))
    /\ \A s \in Serials : (s \in broken) ~> (awaiting[s] = {} \/ Abandoned(s))
===============================================================================
