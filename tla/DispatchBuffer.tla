--------------------------- MODULE DispatchBuffer ---------------------------
(***************************************************************************)
(* infrastructure/browser/dispatch.py: the bounded buffer of candidate job *)
(* references and the producer that fills it.  The actions are composed    *)
(* with the workers and the gate in BufferedDispatch.                      *)
(***************************************************************************)
EXTENDS DispatchConstants, SequencesExt

CONSTANT BufferSize  \* player_info_dispatch_buffer_size

ASSUME BufferAssumption == BufferSize \in Nat \ {0}

VARIABLES buffer, producer

\* closed and seen are the buffer's; pc, ids, accepted and ref the producer's
\* locals: what is left of a peeked batch, whether a put was accepted, and the
\* reference that has a place in seen and waits for room.  While the producer
\* runs, closed also stands for its stop event: request_stop sets both.
ProducerState == [pc : {"waiting", "peeking", "putting", "blocked", "sleeping", "stopped"},
                  ids : SUBSET Jobs, accepted : BOOLEAN, ref : Jobs \cup {None},
                  seen : SUBSET Jobs, closed : BOOLEAN]

NewProducer == [pc |-> "waiting", ids |-> {}, accepted |-> FALSE, ref |-> None,
                seen |-> {}, closed |-> FALSE]

Exhausted == producer.closed /\ buffer = <<>>

Room == Len(buffer) < BufferSize

\* Mutant: one sentinel is missing.
Close_OneShort ==
  /\ producer' = [producer EXCEPT !.pc = "stopped", !.closed = TRUE]
  /\ buffer' = buffer \o [i \in 1 .. Cardinality(Workers) - 1 |-> None]
\* close(n_workers), from the finally block of run().
Close ==
  /\ producer' = [producer EXCEPT !.pc = "stopped", !.closed = TRUE]
  /\ buffer' = buffer \o [i \in 1 .. Cardinality(Workers) |-> None]

\* request_stop() and abort().
Stopping(p) == [p EXCEPT !.closed = TRUE]

\* The head of run()'s loop: the stop event is read before the gate is awaited.
NextRound ==
  \/ producer.closed /\ Close
  \/ ~producer.closed /\ producer' = [producer EXCEPT !.pc = "waiting"] /\ UNCHANGED buffer

\* wait_fn returns.
PassGate ==
  /\ producer.pc = "waiting"
  /\ producer' = [producer EXCEPT !.pc = "peeking"]
  /\ UNCHANGED buffer

\* peek_fn returns the ids of PENDING jobs.
Peek(pending) ==
  /\ producer.pc = "peeking" /\ pending # {}
  /\ producer' = [producer EXCEPT !.pc = "putting", !.ids = pending, !.accepted = FALSE]
  /\ UNCHANGED buffer

\* Nothing is PENDING: the loop ends if nothing is buffered either.
PeekNothing ==
  /\ producer.pc = "peeking"
  /\ \/ buffer = <<>> /\ Close
     \/ /\ buffer # <<>>
        /\ producer' = [producer EXCEPT !.pc = "sleeping"]
        /\ UNCHANGED buffer

PeekRaises == producer.pc = "peeking" /\ Close

\* put(): a reference already in the buffer is skipped, one without room waits
\* with its place in seen reserved.
Put(j) ==
  /\ producer.pc = "putting" /\ j \in producer.ids /\ ~producer.closed
  /\ \/ /\ j \in producer.seen
        /\ producer' = [producer EXCEPT !.ids = @ \ {j}]
        /\ UNCHANGED buffer
     \/ /\ j \notin producer.seen /\ Room
        /\ producer' = [producer EXCEPT !.ids = @ \ {j}, !.seen = @ \cup {j}, !.accepted = TRUE]
        /\ buffer' = Append(buffer, j)
     \/ /\ j \notin producer.seen /\ ~Room
        /\ producer' = [producer EXCEPT !.ids = @ \ {j}, !.seen = @ \cup {j},
                                        !.pc = "blocked", !.ref = j]
        /\ UNCHANGED buffer

\* Mutant: a refused reference keeps its place in seen.
PutBlocked_KeepsSeen ==
  /\ producer.pc = "blocked"
  /\ \/ /\ ~producer.closed /\ Room
        /\ producer' = [producer EXCEPT !.pc = "putting", !.ref = None, !.accepted = TRUE]
        /\ buffer' = Append(buffer, producer.ref)
     \/ /\ producer.closed
        /\ producer' = [producer EXCEPT !.pc = "putting", !.ref = None]
        /\ UNCHANGED buffer

\* The backpressure poll finds room, or finds the buffer closed and gives the
\* reservation back.
PutBlocked ==
  /\ producer.pc = "blocked"
  /\ \/ /\ ~producer.closed /\ Room
        /\ producer' = [producer EXCEPT !.pc = "putting", !.ref = None, !.accepted = TRUE]
        /\ buffer' = Append(buffer, producer.ref)
     \/ /\ producer.closed
        /\ producer' = [producer EXCEPT !.pc = "putting", !.ref = None, !.seen = @ \ {producer.ref}]
        /\ UNCHANGED buffer

\* The batch is done, or cut short by a stop; one of duplicates only backs off.
BatchDone ==
  /\ producer.pc = "putting" /\ (producer.ids = {} \/ producer.closed)
  /\ IF producer.accepted \/ producer.closed THEN NextRound
     ELSE producer' = [producer EXCEPT !.pc = "sleeping"] /\ UNCHANGED buffer

WakeUp == producer.pc = "sleeping" /\ NextRound

\* get(): the reference leaves seen together with the buffer.
Get ==
  /\ buffer # <<>>
  /\ buffer' = Tail(buffer)
  /\ producer' = [producer EXCEPT !.seen = @ \ {Head(buffer)}]

References == {buffer[i] : i \in DOMAIN buffer} \ {None}
Sentinels == Cardinality({i \in DOMAIN buffer : buffer[i] = None})
=============================================================================
