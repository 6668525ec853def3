------------------------------ MODULE TtsService ------------------------------
(***************************************************************************)
(* The speech synthesis service of the gateway: the requests of the        *)
(* mini program (synthesize, status, audio), the background job of each    *)
(* cache key, the semaphore in front of the provider and the failures it   *)
(* remembers.  Every await is a step: a cache read is the read of the      *)
(* metadata file, the stat of the audio file and the write (or removal)    *)
(* that follows.  The eviction of the cache is in TtsAudio, where the two  *)
(* removals of a key are separate steps too.                               *)
(***************************************************************************)
EXTENDS Naturals, Sequences, FiniteSets, SequencesExt

CONSTANTS Keys,      \* cache keys: one text in one voice at one speed
          Callers,   \* HTTP requests in progress
          Slots,     \* TTS_PROVIDER_CONCURRENCY
          MaxRestart \* bound: restarts of the gateway

ASSUME Limits == Slots \in Nat \ {0} /\ MaxRestart \in Nat

VARIABLES
  call,     \* [Callers -> [op, key, pc]] the handler of a request
  job,      \* [Keys -> phase of the background job], the inflight map
  active,   \* semaphore: slots taken
  queue,    \* semaphore: keys whose job waits for a slot, oldest first
  failure,  \* [Keys -> BOOLEAN]: a failure is remembered
  audio,    \* [Keys -> BOOLEAN]: <key>.mp3 exists
  meta,     \* [Keys -> BOOLEAN]: <key>.json exists
  tickets,  \* keys some client holds a ticket for
  lastEnd,  \* ghost: how the last job of a key ended since the start
  restarts

vars == <<call, job, active, queue, failure, audio, meta, tickets,
          lastEnd, restarts>>
inProcess == <<job, active, queue, failure, lastEnd>>
files == <<audio, meta, tickets>>

Ops == {"synthesize", "status", "audio"}
Jobs == {"none", "waiting", "running", "writeAudio", "writeMeta"}
Idle == [op |-> "none", key |-> "none", pc |-> "idle"]

Init ==
  /\ call = [c \in Callers |-> Idle]
  /\ job = [k \in Keys |-> "none"]
  /\ active = 0
  /\ queue = <<>>
  /\ failure = [k \in Keys |-> FALSE]
  /\ audio = [k \in Keys |-> FALSE]
  /\ meta = [k \in Keys |-> FALSE]
  /\ tickets = {}
  /\ lastEnd = [k \in Keys |-> "none"]
  /\ restarts = 0

At(c, pc) == call[c].pc = pc
Key(c) == call[c].key
Goto(c, pc) == call' = [call EXCEPT ![c].pc = pc]

\* The handler answers and the request is over; the answer to a synthesize
\* request carries a ticket for its key.
Answer(c) ==
  /\ call' = [call EXCEPT ![c] = Idle]
  /\ tickets' = IF call[c].op \in {"synthesize", "again"}
                THEN tickets \cup {Key(c)} ELSE tickets

\* A status request for a key in the inflight map is answered "pending" at once,
\* a step that changes nothing.
Request(c, op, k) ==
  /\ At(c, "idle")
  /\ op # "synthesize" => k \in tickets
  /\ op = "status" => job[k] = "none"
  /\ call' = [call EXCEPT ![c] = [op |-> op, key |-> k, pc |-> "read"]]
  /\ UNCHANGED <<inProcess, files, restarts>>

\* --- cache.get ----------------------------------------------------------
ReadMeta(c) ==
  /\ At(c, "read")
  /\ Goto(c, IF meta[Key(c)] THEN "stat" ELSE "drop")
  /\ UNCHANGED <<inProcess, files, restarts>>

StatAudio(c) ==
  /\ At(c, "stat")
  /\ Goto(c, IF audio[Key(c)] THEN "touch" ELSE "drop")
  /\ UNCHANGED <<inProcess, files, restarts>>

\* The hit writes the metadata again, with its new access time.
Touch(c) ==
  /\ At(c, "touch")
  /\ meta' = [meta EXCEPT ![Key(c)] = TRUE]
  /\ Answer(c)
  /\ UNCHANGED <<audio, inProcess, restarts>>

\* The miss of any kind removes what there is, and what follows depends on
\* the caller: a first read starts the job, a second one answers "pending".
Drop(c) ==
  /\ At(c, "drop")
  /\ audio' = [audio EXCEPT ![Key(c)] = FALSE]
  /\ meta' = [meta EXCEPT ![Key(c)] = FALSE]
  /\ Goto(c, "missed")
  /\ UNCHANGED <<inProcess, tickets, restarts>>

\* --- what follows a miss --------------------------------------------------
\* AsyncSemaphore.acquire: a free slot now, or a place in the queue.
Acquire(k) ==
  IF active < Slots
  THEN /\ active' = active + 1
       /\ job' = [job EXCEPT ![k] = "running"]
       /\ UNCHANGED queue
  ELSE /\ queue' = Append(queue, k)
       /\ job' = [job EXCEPT ![k] = "waiting"]
       /\ UNCHANGED active

\* ensureBackgroundSynthesis: one job for a key, the old failure forgotten.
StartJob(k) ==
  IF job[k] # "none" THEN UNCHANGED inProcess
  ELSE /\ failure' = [failure EXCEPT ![k] = FALSE]
       /\ Acquire(k)
       /\ UNCHANGED lastEnd

\* What a request is told after a miss: a first synthesize read starts the job.
Missed(c) ==
  /\ At(c, "missed")
  /\ IF call[c].op = "synthesize"
     THEN StartJob(Key(c)) /\ Goto(c, "wait") /\ UNCHANGED tickets
     ELSE Answer(c) /\ UNCHANGED inProcess
  /\ UNCHANGED <<audio, meta, restarts>>

\* waitInlineForReady ends with the job or after 800 ms, whichever is first;
\* the cache is read a second time.
InlineWaitEnds(c) ==
  /\ At(c, "wait")
  /\ call' = [call EXCEPT ![c].op = "again", ![c].pc = "read"]
  /\ UNCHANGED <<inProcess, files, restarts>>

\* --- the job ----------------------------------------------------------------
\* AsyncSemaphore.release: the oldest waiter takes the slot in the same turn.
Release ==
  IF queue = <<>> THEN active' = active - 1 /\ UNCHANGED queue
  ELSE active' = active /\ queue' = Tail(queue)

\* What the release resumes: the job at the head of the queue runs.
Resumed(j) ==
  IF queue' = queue THEN j ELSE [j EXCEPT ![Head(queue)] = "running"]

\* rememberFailure, then inflight.delete.
Fail(k) ==
  /\ failure' = [failure EXCEPT ![k] = TRUE]
  /\ lastEnd' = [lastEnd EXCEPT ![k] = "failed"]

Synthesized(k) ==
  /\ job[k] = "running"
  /\ Release
  /\ job' = Resumed([job EXCEPT ![k] = "writeAudio"])
  /\ UNCHANGED <<call, failure, lastEnd, files, restarts>>

\* The provider refuses, times out, or returns audio the cache rejects.
SynthesisFails(k) ==
  /\ job[k] = "running"
  /\ Release
  /\ job' = Resumed([job EXCEPT ![k] = "none"])
  /\ Fail(k)
  /\ UNCHANGED <<call, files, restarts>>

QueueTimesOutInPlace(k) ==
  /\ job[k] = "waiting"
  /\ job' = [job EXCEPT ![k] = "none"]
  /\ Fail(k)
  /\ UNCHANGED <<call, queue, active, files, restarts>>
\* TTS_PROVIDER_QUEUE_TIMEOUT_MS: the waiter leaves the queue, TTS_BUSY.
QueueTimesOut(k) ==
  /\ job[k] = "waiting"
  /\ \E i \in DOMAIN queue : queue[i] = k /\ queue' = RemoveAt(queue, i)
  /\ job' = [job EXCEPT ![k] = "none"]
  /\ Fail(k)
  /\ UNCHANGED <<call, active, files, restarts>>

WriteAudio(k) ==
  /\ job[k] = "writeAudio"
  /\ audio' = [audio EXCEPT ![k] = TRUE]
  /\ job' = [job EXCEPT ![k] = "writeMeta"]
  /\ UNCHANGED <<call, active, queue, failure, lastEnd, meta, tickets, restarts>>

WriteMeta(k) ==
  /\ job[k] = "writeMeta"
  /\ meta' = [meta EXCEPT ![k] = TRUE]
  /\ job' = [job EXCEPT ![k] = "none"]
  /\ lastEnd' = [lastEnd EXCEPT ![k] = "stored"]
  /\ UNCHANGED <<call, active, queue, failure, audio, tickets, restarts>>

FailureExpires(k) ==
  /\ failure[k]
  /\ failure' = [failure EXCEPT ![k] = FALSE]
  /\ lastEnd' = [lastEnd EXCEPT ![k] = "none"]
  /\ UNCHANGED <<call, job, active, queue, files, restarts>>

\* The process restarts: jobs, queue and failures are gone, files are kept.
Restart ==
  /\ restarts < MaxRestart
  /\ restarts' = restarts + 1
  /\ call' = [c \in Callers |-> Idle]
  /\ job' = [k \in Keys |-> "none"]
  /\ active' = 0
  /\ queue' = <<>>
  /\ failure' = [k \in Keys |-> FALSE]
  /\ lastEnd' = [k \in Keys |-> "none"]
  /\ UNCHANGED <<files>>

Get(c) == ReadMeta(c) \/ StatAudio(c) \/ Touch(c) \/ Drop(c)
JobStep(k) == \/ Synthesized(k) \/ SynthesisFails(k)
              \/ WriteAudio(k) \/ WriteMeta(k)

Next ==
  \/ \E c \in Callers, op \in Ops, k \in Keys : Request(c, op, k)
  \/ \E c \in Callers : Get(c) \/ Missed(c) \/ InlineWaitEnds(c)
  \/ \E k \in Keys : JobStep(k) \/ QueueTimesOut(k) \/ FailureExpires(k)
  \/ Restart

\* The disk answers, the provider answers or its timeout fires; a waiter need
\* not time out and clients need not ask.
Fairness ==
  /\ \A c \in Callers : WF_vars(Get(c) \/ Missed(c) \/ InlineWaitEnds(c))
  /\ \A k \in Keys : WF_vars(JobStep(k))

Spec == Init /\ [][Next]_vars
-----------------------------------------------------------------------------
With(phase) == {k \in Keys : job[k] = phase}

\* Never more than TTS_PROVIDER_CONCURRENCY synthesis calls, every slot the
\* counter reports taken has a job running, and nobody waits beside a free slot.
SlotsAreUsed ==
  /\ active = Cardinality(With("running")) /\ active <= Slots
  /\ queue # <<>> => active = Slots

\* The queue of the semaphore holds exactly the jobs that wait, each once: a
\* waiter that timed out or was resumed can not be handed another slot.
QueueIsWaiters ==
  /\ ToSet(queue) = With("waiting")
  /\ Len(queue) = Cardinality(With("waiting"))

\* A remembered failure belongs to the last job of its key: it is never
\* told while a new job runs, nor after one that stored its audio.
FailureIsOfLastJob ==
  \A k \in Keys : failure[k] => job[k] = "none" /\ lastEnd[k] = "failed"

\* What the service counts is so: slots, waiters and failures (service.ts,
\* the semaphore, inflight and failures).
SynthesisIsCounted == SlotsAreUsed /\ QueueIsWaiters /\ FailureIsOfLastJob

\* A job leaves the inflight map, also one that waits behind full slots.
JobEnds == \A k \in Keys : []<>(job[k] = "none")

\* Every request is answered, whatever the job it waits for does.
CallEnds == \A c \in Callers : []<>At(c, "idle")
=============================================================================
