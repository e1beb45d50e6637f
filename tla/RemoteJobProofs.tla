-------------------------- MODULE RemoteJobProofs --------------------------
(***************************************************************************)
(* Proofs about RemoteJob, for every number of calls, submit attempts,     *)
(* failed polls, stray POSTs and faults and every length of the worker's   *)
(* queue.                                                                  *)
(*                                                                         *)
(* The invariant IInv follows a token from the POST that creates it to the *)
(* row of the job that polls it.  Its centre is Reachable(x): no handler   *)
(* holds x any more and, while its call lives or died with the process,    *)
(* either the worker's table knows x or nothing of the call is left there  *)
(* (a restart of the worker, the pruning of a dead call).  Answers says so *)
(* of the answer under way to a POST, Stored of the token in the job's     *)
(* row, Deduplicated that the table's entry for the client id is the one   *)
(* job of the call, and Reclaimed that the startup cancel reached the call *)
(* of a dead process.  The calls in `hasty` are left out of all four: two  *)
(* handlers of one client id overlapped, and the second look-up may have   *)
(* missed what the first was about to register.                            *)
(***************************************************************************)
EXTENDS RemoteJob, TLAPS

(* POST t is in the hands of a handler that has not finished with it.      *)
Sending(t)   == posts[t] \in {"sent", "checked", "registered"}

(* Neither the table, the queue nor the worker thread has heard of t.      *)
Untouched(t) == ~Known(t) /\ t \notin Range(taskq) /\ work.token # t

(* Where a call holds a token.                                             *)
Talking      == {"poll", "sleep", "stop", "ack"}

(* The worker has nothing of call r left.                                  *)
Gone(r)      == \A u \in Tokens : Run(u) = r => ~Sending(u) /\ ~Known(u)

(* The locals of run_remote where each call is.                            *)
Phased ==
  \A r \in Runs :
    /\ pc[r] = "idle" => tries[r] = 0
    /\ pc[r] = "submit" => tries[r] < MaxPosts
    /\ pc[r] \in {"wait", "retry"} => tries[r] > 0
    /\ IF pc[r] \in Talking THEN (token[r] \in Tokens /\ Run(token[r]) = r) ELSE token[r] = None
    /\ pc[r] = "stop" => ending[r] \in {"canceled", "failed"}
    /\ pc[r] # "stop" => miss[r] <= MaxMiss

(* The lane runs one call at a time and the running row is that call's;    *)
(* the startup of a new process leaves no row of a dead one.               *)
OneCall ==
  /\ \A q, r \in Runs : q < r /\ pc[r] # "idle" => pc[q] \in Over
  /\ \A r \in Runs : pc[r] \in Active => (up /\ row = [run |-> r, token |-> token[r]])
  /\ up /\ row.run \in Runs => pc[row.run] # "dead"
  /\ IF row.run = None THEN row.token = None
     ELSE row.token # None => row.token \in Tokens /\ Run(row.token) = row.run

(* A call's later attempts have left no trace yet.                         *)
Fresh ==
  \A t \in Tokens :
    pc[Run(t)] \in Active \cup {"idle"} /\ t[2] > tries[Run(t)] =>
      posts[t] = "none" /\ Untouched(t)

(* The client may go on asking for x (see the top of the module).          *)
Reachable(x) ==
  /\ ~Sending(x)
  /\ pc[Run(x)] \in Active \cup {"dead"} => Known(x) \/ Gone(Run(x))
  /\ pc[Run(x)] \in Active /\ reboots = 0 => Known(x)

(* A handler alone knows its token until it has put it on the queue.       *)
Handlers ==
  \A t \in Tokens :
    /\ posts[t] \in {"sent", "checked"} => Untouched(t)
    /\ posts[t] = "registered" =>
         /\ Known(t) /\ jobs[t].status = "queued"
         /\ t \notin Range(taskq) /\ work.token # t

(* An answer under way has its client waiting and names a reachable token  *)
(* of its call.                                                            *)
Answers ==
  \A t \in Tokens : posts[t] = "answered" =>
    /\ Waited(t)
    /\ reply[t] # Full =>
         /\ reply[t] \in Tokens /\ Run(reply[t]) = Run(t)
         /\ Run(t) \in hasty \/ Reachable(reply[t])

(* The token stored in the running row is reachable.                       *)
Stored ==
  row.token \in Tokens => Run(row.token) \in hasty \/ Reachable(row.token)

(* The worker thread runs a job of the table, marked running.              *)
Working ==
  IF work.at = "get" THEN work = Idle
  ELSE work.token \in Tokens /\ Known(work.token) /\ jobs[work.token].status = "running"

(* A token waits in the queue once, as a queued job or a pruned one.       *)
Queue ==
  /\ IsInjective(taskq)
  /\ \A t \in Tokens : t \in Range(taskq) /\ Known(t) => jobs[t].status = "queued"

(* A result is there until it was acknowledged, which ends its call.       *)
Results ==
  \A t \in Tokens : Known(t) =>
    /\ jobs[t].delivered = "expired" => pc[Run(t)] = "done"
    /\ jobs[t].status = "done" /\ jobs[t].delivered # "expired" => jobs[t].result # None

(* A call has one job in the table, under its client id.                   *)
Deduplicated ==
  /\ \A r \in Runs : clientTokens[r] # None => Run(clientTokens[r]) = r
  /\ \A t, u \in Tokens : Handled(t) /\ Handled(u) /\ Run(t) = Run(u) => t = u \/ Run(t) \in hasty
  /\ \A t \in Tokens : Run(t) \notin hasty =>
       /\ Known(t) => clientTokens[Run(t)] = t
       /\ posts[t] = "checked" => clientTokens[Run(t)] = None
       /\ posts[t] = "registered" => clientTokens[Run(t)] \in {t, None}

(* Startup has canceled what a dead call left at the worker.               *)
Reclaimed ==
  ~CancelLost => \A r \in Runs \ hasty : pc[r] = "dead" /\ row.run # r =>
    /\ Stopped(r)
    /\ \A u \in Tokens : Run(u) = r => ~Sending(u)

(* The inductive invariant.                                                *)
IInv == /\ TypeOK /\ Phased /\ OneCall /\ Fresh /\ Handlers /\ Working /\ Queue
        /\ Results /\ Deduplicated /\ Answers /\ Stored /\ Reclaimed

USE DEF Active, Over, Talking, Known, Finished, Idle, NoRow,
        Handled, locals, client, handler, table, worker, process

(* What the bounds are.                                                    *)
LEMMA Bounds ==
  /\ MaxPosts \in Nat /\ MaxPosts > 0 /\ MaxMiss \in Nat /\ MaxFaults \in Nat
  /\ QueueLimit \in Nat
BY RemoteAssumption

(* The values that stand for "nothing" are no tokens, calls or jobs.       *)
LEMMA Nones ==
  /\ None \notin Runs /\ None \notin Tokens /\ None \notin Job /\ None # "image"
  /\ Full \notin Tokens /\ Full # None
BY RemoteAssumption, NoneAssumption

(* A token names its call and its attempt.                                 *)
LEMMA TokenFacts ==
  /\ \A t \in Tokens : Run(t) \in Runs /\ t[2] \in 1 .. MaxPosts /\ t = <<Run(t), t[2]>>
  /\ \A r \in Runs, k \in 1 .. MaxPosts :
       <<r, k>> \in Tokens /\ Run(<<r, k>>) = r /\ <<r, k>>[2] = k
BY DEF Tokens, Run

(* The call of a token.                                                    *)
LEMMA TokenRun == \A t \in Tokens : Run(t) \in Runs
BY TokenFacts

(* put_nowait adds one token to those of the queue.                        *)
LEMMA RangeAppend ==
  ASSUME NEW s \in Seq(Tokens), NEW t \in Tokens
  PROVE  Range(Append(s, t)) = Range(s) \cup {t}
<1>1. DOMAIN Append(s, t) = 1 .. Len(s) + 1 /\ DOMAIN s = 1 .. Len(s)
  OBVIOUS
<1>2. \A i \in 1 .. Len(s) + 1 :
        Append(s, t)[i] = IF i = Len(s) + 1 THEN t ELSE s[i]
  OBVIOUS
<1> QED
  BY <1>1, <1>2 DEF Range

(* get takes its token from those of the queue.                            *)
LEMMA RangeTail ==
  ASSUME NEW s \in Seq(Tokens), s # <<>>
  PROVE  Head(s) \in Range(s) /\ Head(s) \in Tokens /\ Range(Tail(s)) \subseteq Range(s)
<1>1. Len(s) \in Nat \ {0} /\ DOMAIN s = 1 .. Len(s) /\ Head(s) = s[1] /\ s[1] \in Tokens
  OBVIOUS
<1>2. /\ DOMAIN Tail(s) = 1 .. Len(s) - 1
      /\ \A i \in 1 .. Len(s) - 1 : Tail(s)[i] = s[i + 1] /\ i + 1 \in 1 .. Len(s)
  BY <1>1
<1> QED
  BY <1>1, <1>2 DEF Range

(* A token that was not in the queue is there once after put_nowait.       *)
LEMMA AppendInjective ==
  ASSUME NEW s \in Seq(Tokens), NEW t \in Tokens \ Range(s),
         IsInjective(s)
  PROVE  IsInjective(Append(s, t))
<1>1. DOMAIN Append(s, t) = 1 .. Len(s) + 1 /\ DOMAIN s = 1 .. Len(s) /\ Len(s) \in Nat
  OBVIOUS
<1>2. \A i \in 1 .. Len(s) + 1 :
        Append(s, t)[i] = IF i = Len(s) + 1 THEN t ELSE s[i]
  OBVIOUS
<1>3. \A i \in 1 .. Len(s) : s[i] # t
  BY <1>1 DEF Range
<1> QED
  BY <1>1, <1>2, <1>3 DEF IsInjective

(* A token that get takes is gone from the queue.                          *)
LEMMA TailInjective ==
  ASSUME NEW s \in Seq(Tokens), s # <<>>,
         IsInjective(s)
  PROVE  /\ IsInjective(Tail(s))
         /\ Head(s) \notin Range(Tail(s))
<1>1. Len(s) \in Nat \ {0} /\ DOMAIN s = 1 .. Len(s) /\ Head(s) = s[1]
  OBVIOUS
<1>2. /\ DOMAIN Tail(s) = 1 .. Len(s) - 1
      /\ \A i \in 1 .. Len(s) - 1 : Tail(s)[i] = s[i + 1] /\ i + 1 \in 1 .. Len(s) /\ i + 1 # 1
  BY <1>1
<1> QED
  BY <1>1, <1>2 DEF Range, IsInjective

(* The empty queue holds no token.                                         *)
LEMMA RangeEmpty == Range(<<>>) = {}
BY DEF Range

(* The table keeps its jobs with their statuses, and a cancel stays set.   *)
Alike(new) ==
  /\ new \in [Tokens -> Job \cup {None}]
  /\ \A u \in Tokens :
       /\ new[u] # None <=> Known(u)
       /\ Known(u) => /\ new[u].status = jobs[u].status
                      /\ jobs[u].cancel => new[u].cancel

(* The table keeps the results and what was acknowledged.                  *)
SameResults(new) ==
  \A u \in Tokens : Known(u) =>
    /\ new[u].result = jobs[u].result
    /\ new[u].delivered = "expired" <=> jobs[u].delivered = "expired"

(* A field of a known job is set: the job stays one, the rest stays.       *)
LEMMA JobKeeps ==
  ASSUME NEW j \in Job
  PROVE  /\ \A s \in Status : [j EXCEPT !.status = s] \in Job
         /\ [j EXCEPT !.cancel = TRUE] \in Job
         /\ [j EXCEPT !.delivered = "yes"] \in Job
         /\ [j EXCEPT !.result = None, !.delivered = "expired"] \in Job
BY DEF Job

(* /result changes no status, no result and no cancel.                     *)
LEMMA DeliverKeeps ==
  ASSUME TypeOK, NEW t \in Tokens
  PROVE  Alike(Deliver(t)) /\ SameResults(Deliver(t))
<1>1. CASE Known(t) /\ jobs[t].status = "done" /\ jobs[t].delivered = "no"
  <2>1. /\ jobs[t] \in Job /\ jobs \in [Tokens -> Job \cup {None}]
        /\ [jobs[t] EXCEPT !.delivered = "yes"] \in Job
    BY <1>1, JobKeeps DEF TypeOK
  <2>2. Deliver(t) = [jobs EXCEPT ![t] = [jobs[t] EXCEPT !.delivered = "yes"]]
    BY <1>1 DEF Deliver
  <2>3. LET j == [jobs[t] EXCEPT !.delivered = "yes"]
        IN  /\ j.status = jobs[t].status /\ j.result = jobs[t].result
            /\ j.cancel = jobs[t].cancel /\ j.delivered = "yes"
    BY <2>1 DEF Job
  <2> QED
    BY <1>1, <2>1, <2>2, <2>3, Nones DEF Alike, SameResults
<1>2. CASE ~(Known(t) /\ jobs[t].status = "done" /\ jobs[t].delivered = "no")
  BY <1>2 DEF Deliver, Alike, SameResults, TypeOK
<1> QED
  BY <1>1, <1>2

(* /cancel sets one flag, unless it is lost, and changes nothing else.     *)
LEMMA CancelKeeps ==
  ASSUME TypeOK, NEW t \in Tokens, NEW new \in Cancel(t)
  PROVE  /\ Alike(new) /\ SameResults(new)
         /\ ~CancelLost /\ Known(t) => new[t].cancel
<1>1. CASE new = jobs /\ (Known(t) => CancelLost)
  BY <1>1 DEF Alike, SameResults, TypeOK
<1>2. CASE Known(t) /\ new = [jobs EXCEPT ![t].cancel = TRUE]
  <2>1. /\ jobs[t] \in Job /\ jobs \in [Tokens -> Job \cup {None}]
        /\ [jobs[t] EXCEPT !.cancel = TRUE] \in Job
    BY <1>2, JobKeeps DEF TypeOK
  <2>2. new = [jobs EXCEPT ![t] = [jobs[t] EXCEPT !.cancel = TRUE]]
    BY <1>2
  <2>3. LET j == [jobs[t] EXCEPT !.cancel = TRUE]
        IN  /\ j.status = jobs[t].status /\ j.result = jobs[t].result
            /\ j.cancel = TRUE /\ j.delivered = jobs[t].delivered
    BY <2>1 DEF Job
  <2> QED
    BY <1>2, <2>1, <2>2, <2>3, Nones DEF Alike, SameResults
<1> QED
  BY <1>1, <1>2, RemoteAssumption DEF Cancel

(* /ack frees the result of its own job only.                              *)
LEMMA AckKeeps ==
  ASSUME TypeOK, NEW t \in Tokens
  PROVE  /\ Alike(Ack(t)) /\ \A u \in Tokens \ {t} : Ack(t)[u] = jobs[u]
         /\ Known(t) => Ack(t)[t].delivered = "expired"
<1>1. CASE Known(t)
  <2>1. /\ jobs[t] \in Job /\ jobs \in [Tokens -> Job \cup {None}]
        /\ [jobs[t] EXCEPT !.result = None, !.delivered = "expired"] \in Job
    BY <1>1, JobKeeps DEF TypeOK
  <2>2. Ack(t) = [jobs EXCEPT ![t] = [jobs[t] EXCEPT !.result = None, !.delivered = "expired"]]
    BY <1>1 DEF Ack
  <2>3. LET j == [jobs[t] EXCEPT !.result = None, !.delivered = "expired"]
        IN  j.status = jobs[t].status /\ j.cancel = jobs[t].cancel /\ j.delivered = "expired"
    BY <2>1 DEF Job
  <2> QED
    BY <1>1, <2>1, <2>2, <2>3, Nones DEF Alike
<1>2. CASE ~Known(t)
  BY <1>2 DEF Ack, Alike, TypeOK
<1> QED
  BY <1>1, <1>2

(* A job that ends in an error, or canceled, changes alone.                *)
LEMMA ErrorEnds ==
  ASSUME TypeOK, NEW t \in Tokens, Known(t), NEW e \in {"canceled", "failed"}
  PROVE  LET new == End(t, "error", e, None)
         IN  /\ new \in [Tokens -> Job \cup {None}]
             /\ \A u \in Tokens \ {t} : new[u] = jobs[u]
             /\ new[t] # None /\ new[t].status = "error"
             /\ new[t].delivered = jobs[t].delivered
<1> DEFINE j == [jobs[t] EXCEPT !.status = "error", !.error = e, !.result = None]
           new == End(t, "error", e, None)
<1>1. jobs[t] \in Job /\ jobs \in [Tokens -> Job \cup {None}]
  BY DEF TypeOK
<1>2. j \in Job /\ j.status = "error" /\ j.delivered = jobs[t].delivered
  BY <1>1 DEF Job, Status
<1>3. new = [jobs EXCEPT ![t] = j]
  BY DEF End
<1> HIDE DEF j, new
<1>4. /\ new \in [Tokens -> Job \cup {None}]
      /\ \A u \in Tokens \ {t} : new[u] = jobs[u]
      /\ new[t] = j /\ j # None
  BY <1>1, <1>2, <1>3, Nones
<1>5. /\ new \in [Tokens -> Job \cup {None}]
      /\ \A u \in Tokens \ {t} : new[u] = jobs[u]
      /\ new[t] # None /\ new[t].status = "error"
      /\ new[t].delivered = jobs[t].delivered
  BY <1>2, <1>4
<1> QED
  BY <1>5 DEF new

(* A job that ends with an image changes alone.                            *)
LEMMA ImageEnds ==
  ASSUME TypeOK, NEW t \in Tokens, Known(t)
  PROVE  LET new == End(t, "done", "", "image")
         IN  /\ new \in [Tokens -> Job \cup {None}]
             /\ \A u \in Tokens \ {t} : new[u] = jobs[u]
             /\ new[t] # None /\ new[t].status = "done" /\ new[t].result = "image"
             /\ new[t].delivered = jobs[t].delivered
<1> DEFINE j == [jobs[t] EXCEPT !.status = "done", !.error = "", !.result = "image"]
           new == End(t, "done", "", "image")
<1>1. jobs[t] \in Job /\ jobs \in [Tokens -> Job \cup {None}]
  BY DEF TypeOK
<1>2. /\ j \in Job /\ j.status = "done" /\ j.result = "image"
      /\ j.delivered = jobs[t].delivered
  BY <1>1 DEF Job, Status
<1>3. new = [jobs EXCEPT ![t] = j]
  BY DEF End
<1> HIDE DEF j, new
<1>4. /\ new \in [Tokens -> Job \cup {None}]
      /\ \A u \in Tokens \ {t} : new[u] = jobs[u]
      /\ new[t] = j /\ j # None
  BY <1>1, <1>2, <1>3, Nones
<1>5. /\ new \in [Tokens -> Job \cup {None}]
      /\ \A u \in Tokens \ {t} : new[u] = jobs[u]
      /\ new[t] # None /\ new[t].status = "done" /\ new[t].result = "image"
      /\ new[t].delivered = jobs[t].delivered
  BY <1>2, <1>4
<1> QED
  BY <1>5 DEF new

(* The invariant holds initially.                                          *)
LEMMA InitInductive == Init => IInv
<1> SUFFICES ASSUME Init PROVE IInv
  OBVIOUS
<1>1. TypeOK
  BY Bounds, Nones DEF Init, TypeOK, Idle
<1>2. Phased
  BY Bounds, Nones DEF Init, Phased
<1>3. OneCall /\ Working /\ Results /\ Handlers /\ Answers /\ Stored /\ Reclaimed
  BY Nones, TokenRun DEF Init, OneCall, Working, Results, Handlers, Answers,
                         Stored, Reclaimed, NoRow
<1>4. Fresh
  BY RangeEmpty, TokenRun, Nones DEF Init, Fresh, Untouched, Idle
<1>5. Deduplicated
  BY TokenRun, Nones DEF Init, Deduplicated
<1>6. Queue
  BY RangeEmpty DEF Init, Queue, IsInjective
<1> QED
  BY <1>1, <1>2, <1>3, <1>4, <1>5, <1>6 DEF IInv

(* The call moves on.                                                      *)
Located == pc' \in [Runs -> {"idle"} \cup Active \cup Over]
Counted == tries' \in [Runs -> 0 .. MaxPosts] /\ miss' \in [Runs -> 0 .. MaxMiss + 1]
Kept(q) == /\ pc'[q] = pc[q] /\ tries'[q] = tries[q] /\ token'[q] = token[q]
           /\ miss'[q] = miss[q] /\ ending'[q] = ending[q]

LEMMA GotoMoves ==
  ASSUME TypeOK, NEW r \in Runs, NEW at \in Active \cup Over, Goto(r, at)
  PROVE  Located /\ \A q \in Runs : pc'[q] = IF q = r THEN at ELSE pc[q]
<1>1. pc' = [pc EXCEPT ![r] = at] /\ pc \in [Runs -> {"idle"} \cup Active \cup Over]
  BY DEF Goto, TypeOK
<1> HIDE DEF Active, Over
<1> QED
  BY <1>1 DEF Located

(* The call is over, and its locals are gone.                              *)
LEMMA LeaveEnds ==
  ASSUME TypeOK, NEW r \in Runs, NEW how \in Over, Leave(r, how)
  PROVE  /\ Located /\ Counted /\ token' \in [Runs -> Tokens \cup {None}]
         /\ ending' \in [Runs -> {None, "canceled", "failed"}]
         /\ pc'[r] = how /\ tries'[r] = 0 /\ token'[r] = None /\ miss'[r] = 0
         /\ \A q \in Runs \ {r} : Kept(q)
<1>1. Located /\ \A q \in Runs : pc'[q] = IF q = r THEN how ELSE pc[q]
  BY GotoMoves DEF Leave
<1>2. Counted
  BY Bounds DEF Counted, Leave, TypeOK
<1>3. /\ token' \in [Runs -> Tokens \cup {None}]
      /\ ending' \in [Runs -> {None, "canceled", "failed"}]
      /\ tries'[r] = 0 /\ token'[r] = None /\ miss'[r] = 0
      /\ \A q \in Runs \ {r} : Kept(q)
  BY <1>1 DEF Kept, Leave, TypeOK
<1> QED
  BY <1>1, <1>2, <1>3

(* The lane starts a call.                                                 *)
LEMMA BeginInductive ==
  ASSUME IInv, NEW r \in Runs, Begin(r)
  PROVE  IInv'
<1>1. /\ up /\ pc[r] = "idle" /\ \A q \in Runs : q < r => pc[q] \in Over
      /\ \A q \in Runs : pc'[q] = IF q = r THEN "submit" ELSE pc[q]
      /\ row' = [run |-> r, token |-> None]
      /\ UNCHANGED <<tries, locals, process, handler, table, worker, hasty>>
  BY DEF IInv, TypeOK, Begin, Goto, Runs
<1>2. TypeOK'
  BY DEF IInv, TypeOK, Begin, Goto
<1>3. Phased'
  BY <1>1, Bounds DEF IInv, Phased
<1>4. OneCall'
  <2>1. \A p, q \in Runs : p < q /\ pc'[q] # "idle" => pc'[p] \in Over
    BY <1>1 DEF IInv, OneCall, Runs
  <2>2. \A q \in Runs : pc'[q] \in Active => q = r
    BY <1>1 DEF IInv, OneCall, Runs
  <2>3. token[r] = None
    BY <1>1 DEF IInv, Phased
  <2> QED
    BY <1>1, <2>1, <2>2, <2>3 DEF OneCall
<1>5. Fresh'
  BY <1>1, TokenRun DEF IInv, Fresh, Untouched
<1>6. Handlers' /\ Working' /\ Queue' /\ Results' /\ Deduplicated'
  BY <1>1, TokenRun DEF IInv, Handlers, Untouched, Working, Queue, Results,
              Deduplicated
<1>7. \A x \in Tokens : Run(x) # r /\ Reachable(x) => Reachable(x)'
  BY <1>1, TokenRun DEF Reachable, Gone, Sending
<1>8. Answers'
  BY <1>1, <1>7, TokenRun DEF IInv, Answers, Waited
<1>9. Stored'
  BY <1>1, Nones DEF Stored
<1>10. Reclaimed'
  BY <1>1 DEF IInv, OneCall, Reclaimed, Stopped, Sending
<1> QED
  BY <1>2, <1>3, <1>4, <1>5, <1>6, <1>8, <1>9, <1>10 DEF IInv

(* An attempt is sent: its token is fresh.                                 *)
LEMMA SubmitInductive ==
  ASSUME IInv, NEW r \in Runs, Submit(r)
  PROVE  IInv'
<1> DEFINE new == <<r, tries[r] + 1>>
<1>1. /\ pc[r] = "submit" /\ new \in Tokens /\ Run(new) = r /\ new[2] = tries[r] + 1
      /\ tries[r] \in Nat /\ tries[r] < MaxPosts
  <2>1. pc[r] = "submit" /\ tries[r] \in Nat /\ tries[r] < MaxPosts
    BY Bounds DEF IInv, TypeOK, Submit, Phased
  <2> QED
    BY <2>1, Bounds, TokenFacts
<1>2. /\ \A q \in Runs : pc'[q] = IF q = r THEN "wait" ELSE pc[q]
      /\ \A q \in Runs : tries'[q] = IF q = r THEN tries[r] + 1 ELSE tries[q]
      /\ \A t \in Tokens : posts'[t] = IF t = new THEN "sent" ELSE posts[t]
      /\ UNCHANGED <<locals, row, process, reply, table, worker, hasty>>
  BY <1>1 DEF IInv, TypeOK, Submit, Goto
<1>3. Untouched(new) /\ posts[new] = "none"
  BY <1>1, Bounds DEF IInv, Fresh
<1>4. TypeOK'
  <2>1. posts' = [posts EXCEPT ![new] = "sent"] /\ tries' = [tries EXCEPT ![r] = tries[r] + 1]
    BY <1>1 DEF IInv, TypeOK, Submit
  <2> QED
    BY <1>1, <2>1, Bounds DEF IInv, TypeOK, Submit, Goto
<1>5. Phased'
  BY <1>1, <1>2, Bounds DEF IInv, Phased
<1>6. OneCall'
  BY <1>1, <1>2 DEF IInv, OneCall
<1>7. Fresh'
  <2> SUFFICES ASSUME NEW t \in Tokens, pc'[Run(t)] \in Active \cup {"idle"}, t[2] > tries'[Run(t)]
               PROVE  posts'[t] = "none" /\ Untouched(t)'
    BY DEF Fresh
  <2>1. t[2] \in Nat /\ Run(t) \in Runs
    BY TokenFacts, Bounds
  <2>2. t # new /\ t[2] > tries[Run(t)] /\ pc[Run(t)] \in Active \cup {"idle"}
    BY <1>1, <1>2, <2>1
  <2> QED
    BY <1>2, <2>2 DEF IInv, Fresh, Untouched
<1>8. Handlers'
  BY <1>2, <1>3 DEF IInv, Handlers, Untouched
<1>9. Working' /\ Queue' /\ Results' /\ Deduplicated'
  BY <1>1, <1>2, TokenRun DEF IInv, Working, Queue, Results, Deduplicated
<1>10. \A x \in Tokens : Run(x) # r /\ Reachable(x) => Reachable(x)'
  BY <1>1, <1>2, TokenRun DEF Reachable, Gone, Sending
<1>11. Answers'
  BY <1>1, <1>2, <1>10, TokenRun DEF IInv, Answers, Waited
<1>12. Stored'
  <2>1. row = [run |-> r, token |-> None]
    BY <1>1 DEF IInv, OneCall, Phased
  <2> QED
    BY <1>2, <2>1, Nones DEF Stored
<1>13. Reclaimed'
  BY <1>1, <1>2 DEF IInv, Reclaimed, Stopped, Sending
<1> QED
  BY <1>4, <1>5, <1>6, <1>7, <1>8, <1>9, <1>11, <1>12, <1>13 DEF IInv

(* The answer of a POST is stored in the row.                              *)
LEMMA AnsweredInductive ==
  ASSUME IInv, NEW r \in Runs, Answered(r)
  PROVE  IInv'
<1> DEFINE t == <<r, tries[r]>>
<1>1. /\ pc[r] = "wait" /\ t \in Tokens /\ Run(t) = r /\ posts[t] = "answered"
  <2>1. pc[r] = "wait" /\ posts[t] = "answered" /\ tries[r] \in 1 .. MaxPosts
    BY Bounds DEF IInv, TypeOK, Phased, Answered
  <2> QED
    BY <2>1, TokenFacts
<1>2. /\ \A u \in Tokens : posts'[u] = IF u = t THEN "none" ELSE posts[u]
      /\ \A u \in Tokens : reply'[u] = IF u = t THEN None ELSE reply[u]
      /\ \A q \in Runs \ {r} : pc'[q] = pc[q] /\ tries'[q] = tries[q] /\ token'[q] = token[q]
                               /\ miss'[q] = miss[q] /\ ending'[q] = ending[q]
      /\ UNCHANGED <<cancelled, process, table, worker, hasty>>
  BY <1>1 DEF IInv, TypeOK, Answered, Goto, Leave
<1>3. \/ /\ pc'[r] = "failed" /\ tries'[r] = 0 /\ token'[r] = None /\ miss'[r] = 0
         /\ UNCHANGED row
      \/ /\ pc'[r] = "poll" /\ reply[t] \in Tokens /\ token'[r] = reply[t]
         /\ row' = [run |-> r, token |-> reply[t]] /\ UNCHANGED <<tries, miss, ending>>
  BY <1>1 DEF IInv, TypeOK, OneCall, Answered, Goto, Leave
<1>4. reply[t] \in Tokens => Run(reply[t]) = r /\ (r \in hasty \/ Reachable(reply[t]))
  BY <1>1, Nones DEF IInv, Answers
<1>5. TypeOK'
  <2>1. posts' = [posts EXCEPT ![t] = "none"] /\ reply' = [reply EXCEPT ![t] = None]
    BY DEF Answered
  <2>2. posts' \in [Tokens -> {"none", "sent", "checked", "registered", "answered"}]
        /\ reply' \in [Tokens -> Tokens \cup {None, Full}]
    BY <1>1, <2>1 DEF IInv, TypeOK
  <2>3. row' \in [run : Runs \cup {None}, token : Tokens \cup {None}]
    BY <1>3 DEF IInv, TypeOK
  <2>4. /\ Located /\ Counted /\ token' \in [Runs -> Tokens \cup {None}]
        /\ ending' \in [Runs -> {None, "canceled", "failed"}]
    <3>1. CASE Leave(r, "failed")
      BY <3>1, LeaveEnds DEF IInv
    <3>2. CASE /\ reply[t] \in Tokens /\ Goto(r, "poll")
               /\ token' = [token EXCEPT ![r] = reply[t]]
               /\ UNCHANGED <<tries, miss, ending>>
      BY <3>2, GotoMoves DEF IInv, TypeOK, Counted
    <3> QED
      BY <3>1, <3>2 DEF Answered
  <2> QED
    BY <1>2, <2>2, <2>3, <2>4 DEF IInv, TypeOK, Located, Counted
<1>6. Phased'
  BY <1>1, <1>2, <1>3, <1>4, Bounds DEF IInv, Phased
<1>7. OneCall'
  BY <1>1, <1>2, <1>3, <1>4, Nones DEF IInv, OneCall
<1>8. Fresh'
  BY <1>1, <1>2, <1>3, TokenRun DEF IInv, Fresh, Untouched
<1>9. Handlers' /\ Working' /\ Queue'
  BY <1>2 DEF IInv, Handlers, Untouched, Working, Queue
<1>10. Results' /\ Deduplicated'
  BY <1>1, <1>2, TokenRun DEF IInv, Results, Deduplicated
<1>11. \A x \in Tokens : Reachable(x) => Reachable(x)'
  BY <1>1, <1>2, <1>3, TokenRun DEF Reachable, Gone, Sending
<1>12. Answers'
  <2>1. \A u \in Tokens : posts'[u] = "answered" =>
          u # t /\ posts[u] = "answered" /\ reply'[u] = reply[u]
    BY <1>2
  <2>2. \A u \in Tokens : posts'[u] = "answered" => Waited(u) /\ Run(u) # r
    BY <1>1, <2>1, TokenFacts DEF IInv, Answers, Waited
  <2> QED
    BY <1>2, <1>11, <2>1, <2>2, TokenRun DEF IInv, Answers, Waited
<1>13. Stored'
  BY <1>2, <1>3, <1>4, <1>11 DEF IInv, Stored
<1>14. Reclaimed'
  BY <1>1, <1>2, <1>3 DEF IInv, OneCall, Reclaimed, Stopped, Sending
<1> QED
  BY <1>5, <1>6, <1>7, <1>8, <1>9, <1>10, <1>12, <1>13, <1>14 DEF IInv

(* No answer came; the handler may still be at work.                       *)
LEMMA SubmitLostInductive ==
  ASSUME IInv, NEW r \in Runs, SubmitLost(r)
  PROVE  IInv'
<1> DEFINE t == <<r, tries[r]>>
<1>1. /\ pc[r] = "wait" /\ t \in Tokens /\ Run(t) = r
  <2>1. pc[r] = "wait" /\ tries[r] \in 1 .. MaxPosts
    BY Bounds DEF IInv, TypeOK, Phased, SubmitLost
  <2> QED
    BY <2>1, TokenFacts
<1>2. /\ posts' \in [Tokens -> {"none", "sent", "checked", "registered", "answered"}]
      /\ reply' = [reply EXCEPT ![t] = None]
      /\ posts'[t] \in {posts[t], "none"} /\ posts'[t] # "answered"
      /\ \A u \in Tokens \ {t} : posts'[u] = posts[u] /\ reply'[u] = reply[u]
  BY <1>1 DEF IInv, TypeOK, SubmitLost, Abandon
<1>3. /\ \A q \in Runs : pc'[q] = IF q = r THEN "retry" ELSE pc[q]
      /\ UNCHANGED <<tries, locals, row, process, table, worker, hasty>>
  BY DEF IInv, TypeOK, SubmitLost, Goto
<1>4. TypeOK'
  <2>1. reply' \in [Tokens -> Tokens \cup {None, Full}]
    BY <1>1, <1>2 DEF IInv, TypeOK
  <2> QED
    BY <1>1, <1>2, <2>1 DEF IInv, TypeOK, SubmitLost, Goto
<1>5. Phased' /\ OneCall'
  BY <1>1, <1>3, Bounds DEF IInv, Phased, OneCall
<1>6. Fresh'
  BY <1>1, <1>2, <1>3, TokenRun DEF IInv, Fresh, Untouched
<1>7. Handlers'
  BY <1>1, <1>2, <1>3 DEF IInv, Handlers, Untouched
<1>8. Working' /\ Queue' /\ Results' /\ Deduplicated'
  BY <1>1, <1>2, <1>3, TokenRun DEF IInv, Working, Queue, Results, Deduplicated
<1>9. \A x \in Tokens : Reachable(x) => Reachable(x)'
  BY <1>1, <1>2, <1>3, TokenRun DEF Reachable, Gone, Sending
<1>10. Answers'
  <2>1. \A u \in Tokens : posts'[u] = "answered" =>
          u # t /\ posts[u] = "answered" /\ reply'[u] = reply[u]
    BY <1>2
  <2>2. \A u \in Tokens : posts'[u] = "answered" => Waited(u) /\ Run(u) # r
    BY <1>1, <2>1, TokenFacts DEF IInv, Answers, Waited
  <2> QED
    BY <1>3, <1>9, <2>1, <2>2, TokenRun DEF IInv, Answers, Waited
<1>11. Stored'
  BY <1>3, <1>9 DEF IInv, Stored
<1>12. Reclaimed'
  BY <1>1, <1>2, <1>3 DEF IInv, Reclaimed, Stopped, Sending
<1> QED
  BY <1>4, <1>5, <1>6, <1>7, <1>8, <1>10, <1>11, <1>12 DEF IInv

(* The call gives up or sends the next attempt.                            *)
LEMMA RetryInductive ==
  ASSUME IInv, NEW r \in Runs, Retry(r)
  PROVE  IInv'
<1>1. /\ pc[r] = "retry" /\ \A q \in Runs \ {r} : Kept(q)
      /\ \/ /\ pc'[r] \in {"failed", "canceled"} /\ tries'[r] = 0
            /\ token'[r] = None /\ miss'[r] = 0
         \/ /\ pc'[r] = "submit" /\ tries[r] < MaxPosts
            /\ UNCHANGED <<tries, token, miss, ending>>
      /\ UNCHANGED <<cancelled, row, process, handler, table, worker, hasty>>
  BY LeaveEnds, GotoMoves DEF IInv, Retry, Kept
<1>2. TypeOK'
  <2>1. /\ Located /\ Counted /\ token' \in [Runs -> Tokens \cup {None}]
        /\ ending' \in [Runs -> {None, "canceled", "failed"}]
    BY LeaveEnds, GotoMoves DEF IInv, TypeOK, Retry, Counted
  <2> QED
    BY <1>1, <2>1 DEF IInv, TypeOK, Located, Counted
<1>3. Phased'
  BY <1>1, Bounds DEF IInv, Phased, Kept
<1>4. OneCall'
  BY <1>1 DEF IInv, OneCall, Kept
<1>5. Fresh'
  BY <1>1, TokenRun DEF IInv, Fresh, Untouched, Kept
<1>6. Handlers' /\ Working' /\ Queue' /\ Results' /\ Deduplicated'
  BY <1>1, TokenRun DEF IInv, Handlers, Untouched, Working, Queue, Results, Deduplicated, Kept
<1>7. \A x \in Tokens : Reachable(x) => Reachable(x)'
  BY <1>1, TokenRun DEF Kept, Reachable, Gone, Sending
<1>8. Answers'
  BY <1>1, <1>7, TokenRun DEF IInv, Answers, Waited, Kept
<1>9. Stored'
  BY <1>1, <1>7 DEF IInv, Stored
<1>10. Reclaimed'
  BY <1>1 DEF IInv, Reclaimed, Stopped, Sending, Kept
<1> QED
  BY <1>2, <1>3, <1>4, <1>5, <1>6, <1>8, <1>9, <1>10 DEF IInv

(* A poll is answered.                                                     *)
LEMMA PollInductive ==
  ASSUME IInv, NEW r \in Runs, Poll(r)
  PROVE  IInv'
<1>1. /\ pc[r] = "poll" /\ token[r] \in Tokens /\ jobs' = Deliver(token[r])
  BY DEF IInv, Phased, Poll
<1>2. /\ \A q \in Runs \ {r} : pc'[q] = pc[q] /\ ending'[q] = ending[q] /\ miss'[q] = miss[q]
      /\ \/ pc'[r] = "stop" /\ ending'[r] \in {"canceled", "failed"}
         \/ pc'[r] \in {"ack", "sleep"} /\ miss'[r] = 0
      /\ UNCHANGED <<tries, token, cancelled, row, process, handler, clientTokens,
                     worker, hasty>>
  BY DEF IInv, TypeOK, Poll, Goto, Handle, Raise, Sleep
<1>3. Alike(jobs') /\ SameResults(jobs')
  BY <1>1, DeliverKeeps DEF IInv
<1>4. TypeOK'
  <2>1. Located
    BY GotoMoves DEF IInv, Poll, Handle, Raise, Sleep
  <2>2. miss' \in [Runs -> 0 .. MaxMiss + 1]
    <3>1. miss' \in {miss, [miss EXCEPT ![r] = 0]}
      BY DEF Poll
    <3>2. 0 \in 0 .. MaxMiss + 1 /\ miss \in [Runs -> 0 .. MaxMiss + 1]
      BY Bounds DEF IInv, TypeOK
    <3>3. [miss EXCEPT ![r] = 0] \in [Runs -> 0 .. MaxMiss + 1]
      BY <3>2
    <3> QED
      BY <3>1, <3>2, <3>3
  <2>3. ending' \in [Runs -> {None, "canceled", "failed"}]
    BY DEF IInv, TypeOK, Poll, Handle, Raise, Sleep
  <2> QED
    BY <1>2, <1>3, <2>1, <2>2, <2>3 DEF IInv, TypeOK, Alike, Located
<1>5. Phased' /\ OneCall'
  BY <1>1, <1>2, Bounds DEF IInv, Phased, OneCall
<1>6. Fresh' /\ Handlers'
  BY <1>1, <1>2, <1>3, TokenRun DEF IInv, Fresh, Handlers, Untouched, Alike
<1>7. Working' /\ Queue' /\ Deduplicated'
  BY <1>1, <1>2, <1>3, TokenRun DEF IInv, Working, Queue, Deduplicated, Alike
<1>8. Results'
  BY <1>1, <1>2, <1>3, TokenRun DEF IInv, Results, Alike, SameResults
<1>9. \A x \in Tokens : Reachable(x) => Reachable(x)'
  BY <1>1, <1>2, <1>3, TokenRun DEF Reachable, Gone, Sending, Alike
<1>10. Answers'
  BY <1>1, <1>2, <1>9, TokenRun DEF IInv, Answers, Waited
<1>11. Stored'
  BY <1>2, <1>9 DEF IInv, Stored
<1>12. Reclaimed'
  BY <1>1, <1>2, <1>3 DEF IInv, Reclaimed, Stopped, Sending, Alike
<1> QED
  BY <1>4, <1>5, <1>6, <1>7, <1>8, <1>10, <1>11, <1>12 DEF IInv

(* A poll is lost, before or after the worker served it.                   *)
LEMMA PollLostInductive ==
  ASSUME IInv, NEW r \in Runs, PollLost(r)
  PROVE  IInv'
<1>1. /\ pc[r] = "poll" /\ token[r] \in Tokens /\ jobs' \in {jobs, Deliver(token[r])}
  BY DEF IInv, Phased, PollLost
<1>2. /\ \A q \in Runs \ {r} : pc'[q] = pc[q] /\ ending'[q] = ending[q] /\ miss'[q] = miss[q]
      /\ \/ pc'[r] = "stop" /\ ending'[r] \in {"canceled", "failed"}
         \/ pc'[r] = "sleep" /\ miss'[r] <= MaxMiss
      /\ UNCHANGED <<tries, token, cancelled, row, process, handler, clientTokens,
                     worker, hasty>>
  BY DEF IInv, TypeOK, PollLost, Goto, Raise, Sleep
<1>3. Alike(jobs') /\ SameResults(jobs')
  <2>1. CASE jobs' = jobs
    BY <2>1 DEF IInv, TypeOK, Alike, SameResults
  <2>2. CASE jobs' = Deliver(token[r])
    BY <1>1, <2>2, DeliverKeeps DEF IInv
  <2> QED
    BY <1>1, <2>1, <2>2
<1>4. TypeOK'
  <2>1. Located
    BY GotoMoves DEF IInv, PollLost, Raise, Sleep
  <2>2. miss' \in [Runs -> 0 .. MaxMiss + 1]
    <3>1. miss[r] \in 0 .. MaxMiss
      BY <1>1, Bounds DEF IInv, TypeOK, Phased
    <3> QED
      BY <3>1, Bounds DEF IInv, TypeOK, PollLost
  <2>3. ending' \in [Runs -> {None, "canceled", "failed"}]
    BY DEF IInv, TypeOK, PollLost, Raise, Sleep
  <2> QED
    BY <1>2, <1>3, <2>1, <2>2, <2>3 DEF IInv, TypeOK, Alike, Located
<1>5. Phased' /\ OneCall'
  BY <1>1, <1>2, Bounds DEF IInv, Phased, OneCall
<1>6. Fresh' /\ Handlers'
  BY <1>1, <1>2, <1>3, TokenRun DEF IInv, Fresh, Handlers, Untouched, Alike
<1>7. Working' /\ Queue' /\ Deduplicated'
  BY <1>1, <1>2, <1>3, TokenRun DEF IInv, Working, Queue, Deduplicated, Alike
<1>8. Results'
  BY <1>1, <1>2, <1>3, TokenRun DEF IInv, Results, Alike, SameResults
<1>9. \A x \in Tokens : Reachable(x) => Reachable(x)'
  BY <1>1, <1>2, <1>3, TokenRun DEF Reachable, Gone, Sending, Alike
<1>10. Answers'
  BY <1>1, <1>2, <1>9, TokenRun DEF IInv, Answers, Waited
<1>11. Stored'
  BY <1>2, <1>9 DEF IInv, Stored
<1>12. Reclaimed'
  BY <1>1, <1>2, <1>3 DEF IInv, Reclaimed, Stopped, Sending, Alike
<1> QED
  BY <1>4, <1>5, <1>6, <1>7, <1>8, <1>10, <1>11, <1>12 DEF IInv

(* The pause before a poll ends.                                           *)
LEMMA WakeInductive ==
  ASSUME IInv, NEW r \in Runs, Wake(r)
  PROVE  IInv'
<1>1. /\ pc[r] = "sleep" /\ \A q \in Runs : pc'[q] = IF q = r THEN "poll" ELSE pc[q]
      /\ UNCHANGED <<tries, locals, row, process, handler, table, worker, hasty>>
  BY GotoMoves DEF IInv, Wake
<1>2. TypeOK'
  BY <1>1, GotoMoves DEF IInv, TypeOK, Wake, Located
<1>3. Phased' /\ OneCall'
  BY <1>1 DEF IInv, Phased, OneCall
<1>4. Fresh' /\ Handlers'
  BY <1>1, TokenRun DEF IInv, Fresh, Handlers, Untouched
<1>5. Working' /\ Queue' /\ Results' /\ Deduplicated'
  BY <1>1, TokenRun DEF IInv, Working, Queue, Results, Deduplicated
<1>6. \A x \in Tokens : Reachable(x) => Reachable(x)'
  BY <1>1, TokenRun DEF Reachable, Gone, Sending
<1>7. Answers'
  BY <1>1, <1>6, TokenRun DEF IInv, Answers, Waited
<1>8. Stored'
  BY <1>1, <1>6 DEF IInv, Stored
<1>9. Reclaimed'
  BY <1>1 DEF IInv, Reclaimed, Stopped, Sending
<1> QED
  BY <1>2, <1>3, <1>4, <1>5, <1>7, <1>8, <1>9 DEF IInv

(* The call ends in an exception and cancels its remote job.               *)
LEMMA CancelRemoteInductive ==
  ASSUME IInv, NEW r \in Runs, CancelRemote(r)
  PROVE  IInv'
<1>1. /\ pc[r] = "stop" /\ token[r] \in Tokens /\ jobs' \in Cancel(token[r])
      /\ ending[r] \in {"canceled", "failed"} /\ Leave(r, ending[r])
      /\ UNCHANGED <<cancelled, row, process, handler, clientTokens, worker, hasty>>
  BY DEF IInv, Phased, CancelRemote
<1>2. /\ \A q \in Runs \ {r} : Kept(q)
      /\ pc'[r] \in {"canceled", "failed"} /\ tries'[r] = 0
      /\ token'[r] = None /\ miss'[r] = 0
  BY <1>1, LeaveEnds DEF IInv
<1>3. Alike(jobs') /\ SameResults(jobs')
  BY <1>1, CancelKeeps DEF IInv
<1>4. TypeOK'
  <2>1. /\ Located /\ Counted /\ token' \in [Runs -> Tokens \cup {None}]
        /\ ending' \in [Runs -> {None, "canceled", "failed"}]
    BY <1>1, LeaveEnds DEF IInv
  <2> QED
    BY <1>1, <1>3, <2>1 DEF IInv, TypeOK, Alike, Located, Counted
<1>5. Phased' /\ OneCall'
  BY <1>1, <1>2, Bounds DEF IInv, Phased, OneCall, Kept
<1>6. Fresh' /\ Handlers'
  BY <1>1, <1>2, <1>3, TokenRun DEF IInv, Fresh, Handlers, Untouched, Alike, Kept
<1>7. Working' /\ Queue' /\ Deduplicated'
  BY <1>1, <1>2, <1>3, TokenRun DEF IInv, Working, Queue, Deduplicated, Alike
<1>8. Results'
  BY <1>1, <1>2, <1>3, TokenRun DEF IInv, Results, Alike, SameResults, Kept
<1>9. \A x \in Tokens : Reachable(x) => Reachable(x)'
  BY <1>1, <1>2, <1>3, TokenRun DEF Reachable, Gone, Sending, Alike, Kept
<1>10. Answers'
  BY <1>1, <1>2, <1>9, TokenRun DEF IInv, Answers, Waited, Kept
<1>11. Stored'
  BY <1>1, <1>9 DEF IInv, Stored
<1>12. Reclaimed'
  BY <1>1, <1>2, <1>3 DEF IInv, Reclaimed, Stopped, Sending, Alike, Kept
<1> QED
  BY <1>4, <1>5, <1>6, <1>7, <1>8, <1>10, <1>11, <1>12 DEF IInv

(* The call ends with its image and acknowledges it.                       *)
LEMMA AckRemoteInductive ==
  ASSUME IInv, NEW r \in Runs, AckRemote(r)
  PROVE  IInv'
<1>1. /\ pc[r] = "ack" /\ token[r] \in Tokens /\ jobs' \in {jobs, Ack(token[r])}
      /\ Run(token[r]) = r /\ Leave(r, "done")
      /\ UNCHANGED <<cancelled, row, process, handler, clientTokens, worker, hasty>>
  BY DEF IInv, Phased, AckRemote
<1>2. /\ \A q \in Runs \ {r} : Kept(q)
      /\ pc'[r] = "done" /\ tries'[r] = 0 /\ token'[r] = None /\ miss'[r] = 0
  BY <1>1, LeaveEnds DEF IInv
<1>3. Alike(jobs') /\ \A u \in Tokens \ {token[r]} : jobs'[u] = jobs[u]
  <2>1. CASE jobs' = jobs
    BY <2>1 DEF IInv, TypeOK, Alike
  <2>2. CASE jobs' = Ack(token[r])
    BY <1>1, <2>2, AckKeeps DEF IInv
  <2> QED
    BY <1>1, <2>1, <2>2
<1>4. jobs' = jobs \/ jobs'[token[r]] = None \/ jobs'[token[r]].delivered = "expired"
  BY <1>1, <1>3, AckKeeps DEF IInv, Alike
<1>5. TypeOK'
  <2>1. /\ Located /\ Counted /\ token' \in [Runs -> Tokens \cup {None}]
        /\ ending' \in [Runs -> {None, "canceled", "failed"}]
    BY <1>1, LeaveEnds DEF IInv
  <2> QED
    BY <1>1, <1>3, <2>1 DEF IInv, TypeOK, Alike, Located, Counted
<1>6. Phased' /\ OneCall'
  BY <1>1, <1>2, Bounds DEF IInv, Phased, OneCall, Kept
<1>7. Fresh' /\ Handlers'
  BY <1>1, <1>2, <1>3, TokenRun DEF IInv, Fresh, Handlers, Untouched, Alike, Kept
<1>8. Working' /\ Queue' /\ Deduplicated'
  BY <1>1, <1>2, <1>3, TokenRun DEF IInv, Working, Queue, Deduplicated, Alike
<1>9. Results'
  BY <1>1, <1>2, <1>3, <1>4, TokenRun DEF IInv, Results, Kept
<1>10. \A x \in Tokens : Reachable(x) => Reachable(x)'
  BY <1>1, <1>2, <1>3, TokenRun DEF Reachable, Gone, Sending, Alike, Kept
<1>11. Answers'
  BY <1>1, <1>2, <1>10, TokenRun DEF IInv, Answers, Waited, Kept
<1>12. Stored'
  BY <1>1, <1>10 DEF IInv, Stored
<1>13. Reclaimed'
  BY <1>1, <1>2, <1>3 DEF IInv, Reclaimed, Stopped, Sending, Alike, Kept
<1> QED
  BY <1>5, <1>6, <1>7, <1>8, <1>9, <1>11, <1>12, <1>13 DEF IInv

(* The user cancels the job.                                               *)
LEMMA UserCancelsInductive ==
  ASSUME IInv, NEW r \in Runs, UserCancels(r)
  PROVE  IInv'
<1>1. UNCHANGED <<pc, tries, token, miss, ending, row, process, handler, table,
                  worker, hasty>>
  BY DEF UserCancels
<1>2. TypeOK'
  BY <1>1 DEF IInv, TypeOK, UserCancels
<1>3. Phased' /\ OneCall' /\ Fresh' /\ Handlers' /\ Working' /\ Queue' /\ Results' /\ Deduplicated'
  BY <1>1 DEF IInv, Phased, OneCall, Fresh, Handlers, Untouched, Working, Queue, Results,
              Deduplicated
<1>4. \A x : Reachable(x) => Reachable(x)'
  BY <1>1 DEF Reachable, Gone, Sending
<1>5. Answers' /\ Stored'
  BY <1>1, <1>4 DEF IInv, Answers, Stored, Waited
<1>6. Reclaimed'
  BY <1>1 DEF IInv, Reclaimed, Stopped, Sending
<1> QED
  BY <1>2, <1>3, <1>5, <1>6 DEF IInv

(* The look-up of a POST, with the pruning before it: what it prunes is    *)
(* either acknowledged, which ended its call, or of a call that is over    *)
(* and has no POST left.                                                   *)
LEMMA CheckPostInductive ==
  ASSUME IInv, NEW t \in Tokens, CheckPost(t)
  PROVE  IInv'
<1>1. PICK old \in SUBSET {u \in Tokens : Prunable(u)} :
        /\ jobs' = [u \in Tokens |-> IF u \in old \cup MustPrune THEN None ELSE jobs[u]]
        /\ clientTokens' = [r \in Runs |->
             IF clientTokens[r] \in Tokens /\ jobs'[clientTokens[r]] # None
               THEN clientTokens[r] ELSE None]
        /\ IF clientTokens'[Run(t)] # None THEN Answer(t, clientTokens'[Run(t)])
           ELSE IF Len(taskq) >= QueueLimit THEN Answer(t, Full)
           ELSE posts' = [posts EXCEPT ![t] = "checked"] /\ UNCHANGED reply
  BY DEF CheckPost
<1>2. /\ posts[t] = "sent"
      /\ hasty' = hasty \cup {r \in {Run(t)} : \E u \in Tokens : Run(u) = r /\ Handled(u)}
      /\ UNCHANGED <<client, row, process, worker>>
  BY DEF CheckPost
<1>3. \A u \in Tokens :
        \/ jobs'[u] = jobs[u]
        \/ /\ jobs'[u] = None /\ Finished(u)
           /\ \/ jobs[u].delivered = "expired"
              \/ /\ pc[Run(u)] \in Over
                 /\ \A v \in Tokens : Run(v) = Run(u) => posts[v] = "none"
  BY <1>1 DEF Prunable, MustPrune
<1>4. \A r \in Runs :
        \/ /\ clientTokens'[r] = clientTokens[r] /\ clientTokens[r] \in Tokens
           /\ jobs'[clientTokens[r]] # None
        \/ /\ clientTokens'[r] = None
           /\ clientTokens[r] \in Tokens => jobs'[clientTokens[r]] = None
  BY <1>1
<1>5. \A u \in Tokens \ {t} : posts'[u] = posts[u] /\ reply'[u] = reply[u]
  BY <1>1 DEF IInv, TypeOK, Answer
<1>6. \/ /\ posts'[t] = "answered" /\ Waited(t)
         /\ reply'[t] # Full => reply'[t] = clientTokens'[Run(t)] /\ reply'[t] # None
      \/ posts'[t] = "none"
      \/ posts'[t] = "checked" /\ clientTokens'[Run(t)] = None
  BY <1>1, Nones DEF IInv, TypeOK, Answer
<1>7. TypeOK'
  <2>1. jobs' \in [Tokens -> Job \cup {None}] /\ clientTokens' \in [Runs -> Tokens \cup {None}]
    BY <1>1 DEF IInv, TypeOK
  <2>2. /\ posts' \in [Tokens -> {"none", "sent", "checked", "registered", "answered"}]
        /\ reply' \in [Tokens -> Tokens \cup {None, Full}]
    BY <1>1, <2>1, TokenRun DEF IInv, TypeOK, Answer
  <2>3. hasty' \subseteq Runs
    BY <1>2, TokenRun DEF IInv, TypeOK
  <2> QED
    BY <1>2, <2>1, <2>2, <2>3 DEF IInv, TypeOK
<1>8. Phased' /\ OneCall'
  BY <1>2 DEF IInv, Phased, OneCall
<1>9. Fresh'
  BY <1>2, <1>3, <1>5, Nones DEF IInv, Fresh, Untouched
<1>10. Handlers'
  BY <1>2, <1>3, <1>5, <1>6 DEF IInv, Handlers, Untouched
<1>11. Working' /\ Queue'
  BY <1>2, <1>3 DEF IInv, Working, Queue
<1>12. Results'
  BY <1>2, <1>3 DEF IInv, Results
<1>13. Deduplicated'
  BY <1>2, <1>3, <1>4, <1>5, <1>6, TokenRun DEF IInv, Deduplicated
<1>14. \A x \in Tokens : Reachable(x) /\ Run(x) \notin hasty' => Reachable(x)'
  <2> SUFFICES ASSUME NEW x \in Tokens, Reachable(x), Run(x) \notin hasty'
               PROVE  Reachable(x)'
    OBVIOUS
  <2>1. Run(x) \notin hasty /\ (Run(x) = Run(t) => \A u \in Tokens : Run(u) = Run(t) => ~Handled(u))
    BY <1>2
  <2>2. ~Sending(x)'
    BY <1>2, <1>5 DEF Reachable, Sending
  <2>3. Known(x) /\ pc[Run(x)] \in Active => Known(x)'
    BY <1>3 DEF IInv, Results
  <2>4. Known(x) /\ Run(x) = Run(t) /\ pc[Run(x)] = "dead" => Known(x)'
    BY <1>2, <1>3 DEF IInv, Results
  <2>5. ASSUME Known(x), pc[Run(x)] = "dead", Run(x) # Run(t), ~Known(x)'
        PROVE  Gone(Run(x))'
    <3>1. \A v \in Tokens : Run(v) = Run(x) => posts[v] = "none" /\ posts'[v] = "none"
      BY <1>3, <1>5, <2>5 DEF IInv, Results
    <3>2. \A v \in Tokens : Run(v) = Run(x) /\ Known(v) => v = x
      BY <2>1, <2>5 DEF IInv, Deduplicated
    <3> QED
      BY <1>3, <2>5, <3>1, <3>2 DEF Gone, Sending
  <2>6. Gone(Run(x)) => Gone(Run(x))'
    BY <1>2, <1>3, <1>5, <1>6 DEF Gone, Sending
  <2> QED
    BY <1>2, <2>2, <2>3, <2>4, <2>5, <2>6 DEF Reachable
<1>15. Answers'
  <2>1. ASSUME NEW u \in Tokens \ {t}, posts'[u] = "answered"
        PROVE  /\ Waited(u)'
               /\ reply'[u] # Full =>
                    /\ reply'[u] \in Tokens /\ Run(reply'[u]) = Run(u)
                    /\ Run(u) \in hasty' \/ Reachable(reply[u])'
    <3>1. posts[u] = "answered" /\ reply'[u] = reply[u] /\ (Waited(u) => Waited(u)')
      BY <1>2, <1>5, <2>1 DEF Waited
    <3> QED
      BY <1>2, <1>14, <3>1 DEF IInv, Answers
  <2>2. ASSUME posts'[t] = "answered", reply'[t] # Full
        PROVE  /\ reply'[t] \in Tokens /\ Run(reply'[t]) = Run(t)
               /\ Run(t) \in hasty' \/ Reachable(reply[t])'
    <3>1. reply'[t] = clientTokens[Run(t)] /\ reply'[t] \in Tokens /\ jobs'[reply'[t]] # None
      BY <1>4, <1>6, <2>2, TokenRun
    <3>2. Run(reply'[t]) = Run(t) /\ Known(reply'[t])
      BY <1>3, <3>1, TokenRun, Nones DEF IInv, Deduplicated
    <3>3. Run(t) \in hasty' \/ ~Sending(reply[t])'
      <4>1. posts[reply'[t]] \notin {"sent", "checked"}
        BY <3>1, <3>2 DEF IInv, Handlers, Untouched
      <4>2. posts[reply'[t]] = "registered" => Run(t) \in hasty'
        BY <1>2, <3>1, <3>2
      <4>3. reply'[t] # t
        BY <1>2, <4>1
      <4> QED
        BY <1>5, <3>1, <4>1, <4>2, <4>3 DEF Sending
    <3> QED
      BY <3>1, <3>2, <3>3 DEF Reachable
  <2>3. posts'[t] = "answered" => Waited(t)'
    BY <1>2, <1>6 DEF Waited
  <2> QED
    BY <2>1, <2>2, <2>3 DEF Answers
<1>16. Stored'
  BY <1>2, <1>14 DEF IInv, Stored
<1>17. Reclaimed'
  BY <1>2, <1>3, <1>5, <1>6, TokenRun DEF IInv, Reclaimed, Stopped, Sending
<1> QED
  BY <1>7, <1>8, <1>9, <1>10, <1>11, <1>12, <1>13, <1>15, <1>16, <1>17 DEF IInv

(* The registration: unless two handlers overlap, the client id was free.  *)
LEMMA RegisterInductive ==
  ASSUME IInv, NEW t \in Tokens, Register(t)
  PROVE  IInv'
<1>1. /\ posts[t] = "checked"
      /\ jobs' = [jobs EXCEPT ![t] = NewJob]
      /\ clientTokens' = [clientTokens EXCEPT ![Run(t)] = t]
      /\ posts' = [posts EXCEPT ![t] = "registered"]
      /\ UNCHANGED <<client, row, process, reply, worker, hasty>>
  BY DEF Register
<1>2. /\ NewJob \in Job /\ NewJob # None /\ NewJob.status = "queued"
      /\ NewJob.delivered = "no"
  <2>1. NewJob \in Job
    BY DEF NewJob, Job, Status
  <2> QED
    BY <2>1, Nones DEF NewJob
<1>3. /\ \A u \in Tokens : jobs'[u] = IF u = t THEN NewJob ELSE jobs[u]
      /\ \A r \in Runs : clientTokens'[r] = IF r = Run(t) THEN t ELSE clientTokens[r]
      /\ \A u \in Tokens : posts'[u] = IF u = t THEN "registered" ELSE posts[u]
  BY <1>1 DEF IInv, TypeOK
<1>4. Untouched(t)
  BY <1>1 DEF IInv, Handlers
<1>5. Run(t) \notin hasty => \A u \in Tokens : Run(u) = Run(t) => ~Known(u)
  BY <1>1, Nones DEF IInv, Deduplicated
<1>6. TypeOK'
  BY <1>1, <1>2, TokenRun DEF IInv, TypeOK
<1>7. Phased' /\ OneCall'
  BY <1>1 DEF IInv, Phased, OneCall
<1>8. Fresh'
  BY <1>1, <1>3 DEF IInv, Fresh, Untouched
<1>9. Handlers'
  BY <1>1, <1>2, <1>3, <1>4 DEF IInv, Handlers, Untouched
<1>10. Working'
  BY <1>1, <1>3, <1>4 DEF IInv, Working, Untouched
<1>11. Queue' /\ Results'
  BY <1>1, <1>2, <1>3, <1>4 DEF IInv, Queue, Results, Untouched
<1>12. Deduplicated'
  BY <1>1, <1>3, <1>5, TokenRun DEF IInv, Deduplicated
<1>13. \A x \in Tokens : Reachable(x) /\ Run(x) \notin hasty => Reachable(x)'
  BY <1>1, <1>2, <1>3, <1>5 DEF Reachable, Gone, Sending
<1>14. Answers'
  BY <1>1, <1>3, <1>13 DEF IInv, Answers, Waited
<1>15. Stored'
  BY <1>1, <1>13 DEF IInv, Stored
<1>16. Reclaimed'
  BY <1>1, <1>3 DEF IInv, Reclaimed, Stopped, Sending
<1> QED
  BY <1>6, <1>7, <1>8, <1>9, <1>10, <1>11, <1>12, <1>14, <1>15, <1>16 DEF IInv

(* put_nowait, or the registration taken back: the token was its handler's *)
(* alone.                                                                  *)
LEMMA PutInductive ==
  ASSUME IInv, NEW t \in Tokens, Put(t)
  PROVE  IInv'
<1>1. /\ posts[t] = "registered" /\ Known(t) /\ t \notin Range(taskq) /\ work.token # t
      /\ jobs[t].status = "queued"
      /\ UNCHANGED <<client, row, process, work, hasty>>
  BY DEF Put, IInv, Handlers
<1>2. /\ \A u \in Tokens \ {t} : posts'[u] = posts[u] /\ reply'[u] = reply[u]
      /\ posts'[t] # "answered" => posts'[t] = "none"
      /\ posts'[t] = "answered" => Waited(t)
  BY DEF IInv, TypeOK, Put, Answer
<1>3. \/ /\ taskq' = Append(taskq, t) /\ Len(taskq) < QueueLimit
         /\ posts'[t] = "answered" => reply'[t] = t
         /\ UNCHANGED table
      \/ /\ jobs' = [jobs EXCEPT ![t] = None]
         /\ clientTokens' = [clientTokens EXCEPT ![Run(t)] = None]
         /\ posts'[t] = "answered" => reply'[t] = Full
         /\ UNCHANGED taskq
  BY DEF IInv, TypeOK, Put, Answer
<1>4. /\ \A u \in Tokens \ {t} : jobs'[u] = jobs[u]
      /\ \A r \in Runs \ {Run(t)} : clientTokens'[r] = clientTokens[r]
      /\ \/ UNCHANGED table
         \/ jobs'[t] = None /\ clientTokens'[Run(t)] = None
  BY <1>3, TokenRun DEF IInv, TypeOK
<1>5. \A u \in Tokens : u \in Range(taskq') => u = t \/ u \in Range(taskq)
  <2>1. CASE taskq' = Append(taskq, t)
    BY <2>1, RangeAppend DEF IInv, TypeOK
  <2>2. CASE taskq' = taskq
    BY <2>2
  <2> QED
    BY <1>3, <2>1, <2>2
<1>6. TypeOK'
  <2>1. /\ posts' \in [Tokens -> {"none", "sent", "checked", "registered", "answered"}]
        /\ reply' \in [Tokens -> Tokens \cup {None, Full}]
    <3>1. PICK a \in Tokens \cup {Full} : Answer(t, a)
      BY DEF Put
    <3> QED
      BY <3>1 DEF IInv, TypeOK, Answer
  <2>2. jobs' \in [Tokens -> Job \cup {None}] /\ clientTokens' \in [Runs -> Tokens \cup {None}]
    BY <1>3 DEF IInv, TypeOK
  <2>3. taskq' \in Seq(Tokens) /\ Len(taskq') <= QueueLimit
    <3>1. taskq \in Seq(Tokens) /\ Len(taskq) \in Nat /\ Len(taskq) <= QueueLimit
      BY DEF IInv, TypeOK
    <3>2. Append(taskq, t) \in Seq(Tokens) /\ Len(Append(taskq, t)) = Len(taskq) + 1
      BY <3>1
    <3> QED
      BY <1>3, <3>1, <3>2, Bounds
  <2> QED
    BY <1>1, <2>1, <2>2, <2>3 DEF IInv, TypeOK
<1>7. Phased' /\ OneCall'
  BY <1>1 DEF IInv, Phased, OneCall
<1>8. Fresh'
  BY <1>1, <1>2, <1>4, <1>5 DEF IInv, Fresh, Untouched
<1>9. Handlers'
  BY <1>1, <1>2, <1>4, <1>5 DEF IInv, Handlers, Untouched
<1>10. Working'
  BY <1>1, <1>4 DEF IInv, Working
<1>11. Results' /\ Queue'
  <2>1. IsInjective(taskq')
    <3>1. IsInjective(taskq) /\ taskq \in Seq(Tokens)
      BY DEF IInv, TypeOK, Queue
    <3>2. CASE taskq' = Append(taskq, t)
      BY <1>1, <3>1, <3>2, AppendInjective
    <3>3. CASE taskq' = taskq
      BY <3>1, <3>3
    <3> QED
      BY <1>3, <3>2, <3>3
  <2> QED
    BY <1>1, <1>4, <1>5, <2>1 DEF IInv, Results, Queue
<1>12. Deduplicated'
  <2>1. \A u \in Tokens : Known(u)' /\ Run(u) = Run(t) /\ Run(t) \notin hasty => table' = table
    BY <1>1, <1>4, Nones DEF IInv, Deduplicated
  <2> QED
    BY <1>1, <1>2, <1>4, <2>1, TokenRun, Nones DEF IInv, Deduplicated
<1>13. \A x \in Tokens : Reachable(x) => Reachable(x)'
  BY <1>1, <1>2, <1>4 DEF Reachable, Gone, Sending
<1>14. Answers'
  <2>1. ASSUME NEW u \in Tokens \ {t}, posts'[u] = "answered"
        PROVE  /\ Waited(u)'
               /\ reply'[u] # Full =>
                    /\ reply'[u] \in Tokens /\ Run(reply'[u]) = Run(u)
                    /\ Run(u) \in hasty' \/ Reachable(reply[u])'
    BY <1>1, <1>2, <1>13, <2>1 DEF IInv, Answers, Waited
  <2>2. ASSUME posts'[t] = "answered", reply'[t] # Full
        PROVE  reply'[t] = t /\ Reachable(t)'
    BY <1>1, <1>2, <1>3, <2>2 DEF Reachable, Sending
  <2>3. posts'[t] = "answered" => Waited(t)'
    BY <1>1, <1>2 DEF Waited
  <2> QED
    BY <2>1, <2>2, <2>3 DEF Answers
<1>15. Stored'
  BY <1>1, <1>13 DEF IInv, Stored
<1>16. Reclaimed'
  BY <1>1, <1>2, <1>4 DEF IInv, Reclaimed, Stopped, Sending
<1> QED
  BY <1>6, <1>7, <1>8, <1>9, <1>10, <1>11, <1>12, <1>14, <1>15, <1>16 DEF IInv

(* The worker thread takes a job.                                          *)
LEMMA GetInductive ==
  ASSUME IInv, Get
  PROVE  IInv'
<1> DEFINE t == Head(taskq)
<1>1. /\ work.at = "get" /\ taskq' = Tail(taskq)
      /\ taskq # <<>> /\ taskq \in Seq(Tokens)
      /\ UNCHANGED <<client, row, process, handler, clientTokens, hasty>>
  BY DEF IInv, TypeOK, Get
<1>2. t \in Range(taskq) /\ t \in Tokens /\ Range(taskq') \subseteq Range(taskq)
  BY <1>1, RangeTail
<1>3. \/ UNCHANGED <<jobs, work>>
      \/ /\ Known(t) /\ jobs' = End(t, "error", "canceled", None) /\ UNCHANGED work
      \/ /\ Known(t) /\ ~jobs[t].cancel
         /\ jobs' = [jobs EXCEPT ![t].status = "running"]
         /\ work' = [at |-> "fn", token |-> t]
  BY DEF Get
<1>4. /\ jobs' \in [Tokens -> Job \cup {None}]
      /\ \A u \in Tokens \ {t} : jobs'[u] = jobs[u]
      /\ \/ UNCHANGED <<jobs, work>>
         \/ /\ Known(t) /\ jobs'[t] # None /\ UNCHANGED work
            /\ jobs'[t].status = "error" /\ jobs'[t].delivered = jobs[t].delivered
         \/ /\ Known(t) /\ jobs'[t] # None /\ ~jobs[t].cancel
            /\ jobs'[t].status = "running" /\ jobs'[t].delivered = jobs[t].delivered
            /\ work' = [at |-> "fn", token |-> t]
  <2>1. CASE UNCHANGED <<jobs, work>>
    BY <2>1 DEF IInv, TypeOK
  <2>2. CASE Known(t) /\ jobs' = End(t, "error", "canceled", None) /\ UNCHANGED work
    <3> HIDE DEF t
    <3> QED
      BY <1>2, <2>2, ErrorEnds DEF IInv
  <2>3. CASE /\ Known(t) /\ ~jobs[t].cancel
             /\ jobs' = [jobs EXCEPT ![t].status = "running"]
             /\ work' = [at |-> "fn", token |-> t]
    <3>1. /\ jobs[t] \in Job /\ [jobs[t] EXCEPT !.status = "running"] \in Job
          /\ jobs \in [Tokens -> Job \cup {None}]
      BY <1>2, <2>3, JobKeeps DEF IInv, TypeOK, Status
    <3>2. jobs' = [jobs EXCEPT ![t] = [jobs[t] EXCEPT !.status = "running"]]
      BY <2>3
    <3>3. LET j == [jobs[t] EXCEPT !.status = "running"]
          IN  j.status = "running" /\ j.delivered = jobs[t].delivered
      BY <3>1 DEF Job
    <3> QED
      BY <1>2, <2>3, <3>1, <3>2, <3>3, Nones
  <2> QED
    BY <1>3, <2>1, <2>2, <2>3
<1>5. TypeOK'
  <2>1. taskq' \in Seq(Tokens) /\ Len(taskq') <= QueueLimit
    BY <1>1, Bounds DEF IInv, TypeOK
  <2>2. work' \in [at : {"get", "fn", "returned"}, token : Tokens \cup {None}]
    BY <1>2, <1>4 DEF IInv, TypeOK
  <2> QED
    BY <1>1, <1>4, <2>1, <2>2 DEF IInv, TypeOK
<1>6. Phased' /\ OneCall'
  BY <1>1 DEF IInv, Phased, OneCall
<1>7. Fresh' /\ Handlers'
  BY <1>1, <1>2, <1>4 DEF IInv, Fresh, Handlers, Untouched
<1>8. Working'
  BY <1>1, <1>2, <1>4 DEF IInv, Working
<1>9. Results' /\ Deduplicated'
  BY <1>1, <1>4 DEF IInv, Results, Deduplicated
<1>13. Queue' /\ (Known(t) => jobs[t].status = "queued")
  BY <1>1, <1>2, <1>4, TailInjective DEF IInv, Queue
<1>10. \A x \in Tokens : Reachable(x) => Reachable(x)'
  BY <1>1, <1>4 DEF Reachable, Gone, Sending
<1>11. Answers' /\ Stored'
  BY <1>1, <1>10 DEF IInv, Answers, Stored, Waited
<1>12. Reclaimed'
  <2>1. \A u \in Tokens : Known(u)' /\ (Finished(u) \/ jobs[u].cancel) =>
          jobs'[u].status \in {"done", "error"} \/ jobs'[u].cancel
    BY <1>4, <1>13
  <2> QED
    BY <1>1, <1>4, <2>1 DEF IInv, Reclaimed, Stopped, Sending
<1> QED
  BY <1>5, <1>6, <1>7, <1>8, <1>9, <1>11, <1>12, <1>13 DEF IInv

(* fn(token) returns.                                                      *)
LEMMA FnReturnsInductive ==
  ASSUME IInv, FnReturns
  PROVE  IInv'
<1>1. /\ work.at = "fn" /\ work' = [work EXCEPT !.at = "returned"]
      /\ UNCHANGED <<client, row, process, handler, table, taskq, hasty>>
  BY DEF FnReturns
<1>2. work'.at = "returned" /\ work'.token = work.token
  BY <1>1 DEF IInv, TypeOK
<1>3. TypeOK'
  BY <1>1 DEF IInv, TypeOK
<1>4. Phased' /\ OneCall' /\ Queue' /\ Results' /\ Deduplicated'
  BY <1>1 DEF IInv, Phased, OneCall, Queue, Results, Deduplicated
<1>5. Fresh' /\ Handlers' /\ Working'
  BY <1>1, <1>2 DEF IInv, Fresh, Handlers, Untouched, Working
<1>6. \A x \in Tokens : Reachable(x) => Reachable(x)'
  BY <1>1 DEF Reachable, Gone, Sending
<1>7. Answers' /\ Stored'
  BY <1>1, <1>6 DEF IInv, Answers, Stored, Waited
<1>8. Reclaimed'
  BY <1>1 DEF IInv, Reclaimed, Stopped, Sending
<1> QED
  BY <1>3, <1>4, <1>5, <1>7, <1>8 DEF IInv

(* fn(token) ends in an exception or is reported: what both do.            *)
LEMMA WorkEnds ==
  ASSUME IInv, NEW t \in Tokens, t = work.token, Known(t),
         jobs' \in [Tokens -> Job \cup {None}], work' = Idle,
         \A u \in Tokens \ {t} : jobs'[u] = jobs[u],
         jobs'[t] # None, jobs'[t].delivered = jobs[t].delivered,
         \/ jobs'[t].status = "error"
         \/ jobs'[t].status = "done" /\ jobs'[t].result = "image",
         UNCHANGED <<client, row, process, handler, clientTokens, taskq, hasty>>
  PROVE  IInv'
<1>1. TypeOK'
  BY DEF IInv, TypeOK
<1>2. Phased' /\ OneCall' /\ Deduplicated'
  BY DEF IInv, Phased, OneCall, Deduplicated
<1>3. Fresh' /\ Handlers' /\ Working'
  BY Nones DEF IInv, Fresh, Handlers, Untouched, Working
<1>4. Results' /\ Queue'
  BY Nones DEF IInv, Results, Working, Queue
<1>5. \A x \in Tokens : Reachable(x) => Reachable(x)'
  BY DEF Reachable, Gone, Sending
<1>6. Answers' /\ Stored'
  BY <1>5 DEF IInv, Answers, Stored, Waited
<1>7. Reclaimed'
  BY DEF IInv, Reclaimed, Stopped, Sending
<1> QED
  BY <1>1, <1>2, <1>3, <1>4, <1>6, <1>7 DEF IInv

(* fn(token) raises.                                                       *)
LEMMA FnRaisesInductive ==
  ASSUME IInv, FnRaises
  PROVE  IInv'
<1>1. /\ work.token \in Tokens /\ Known(work.token)
      /\ UNCHANGED <<client, row, process, handler, clientTokens, taskq, hasty>>
      /\ work' = Idle
  BY DEF IInv, Working, FnRaises
<1>2. \/ jobs' = End(work.token, "error", "failed", None)
      \/ jobs' = End(work.token, "error", "canceled", None)
  BY DEF FnRaises
<1> QED
  BY <1>1, <1>2, ErrorEnds, WorkEnds DEF IInv

(* The outcome of fn(token) is reported.                                   *)
LEMMA ReportInductive ==
  ASSUME IInv, Report
  PROVE  IInv'
<1>1. /\ work.token \in Tokens /\ Known(work.token)
      /\ UNCHANGED <<client, row, process, handler, clientTokens, taskq, hasty>>
      /\ work' = Idle
  BY DEF IInv, Working, Report
<1>2. \/ jobs' = End(work.token, "error", "canceled", None)
      \/ jobs' = End(work.token, "done", "", "image")
  BY DEF Report
<1>3. CASE jobs' = End(work.token, "error", "canceled", None)
  BY <1>1, <1>3, ErrorEnds, WorkEnds DEF IInv
<1>4. CASE jobs' = End(work.token, "done", "", "image")
  BY <1>1, <1>4, ImageEnds, WorkEnds DEF IInv
<1> QED
  BY <1>2, <1>3, <1>4

(* The row of a finished call is settled.                                  *)
LEMMA SettleInductive ==
  ASSUME IInv, Settle
  PROVE  IInv'
<1>1. /\ row.run \in Runs /\ pc[row.run] \in Over \ {"dead"} /\ row' = NoRow
      /\ cancelled' = [cancelled EXCEPT ![row.run] = FALSE]
      /\ UNCHANGED <<pc, tries, token, miss, ending, process, handler, table,
                     worker, hasty>>
  BY DEF IInv, TypeOK, Settle
<1>2. TypeOK'
  BY <1>1 DEF IInv, TypeOK
<1>3. OneCall'
  BY <1>1, Nones DEF IInv, OneCall
<1>4. Phased' /\ Fresh' /\ Handlers' /\ Working' /\ Queue' /\ Results' /\ Deduplicated'
  BY <1>1 DEF IInv, Phased, Fresh, Handlers, Untouched, Working, Queue, Results,
              Deduplicated
<1>5. \A x : Reachable(x) => Reachable(x)'
  BY <1>1 DEF Reachable, Gone, Sending
<1>6. Answers'
  BY <1>1, <1>5 DEF IInv, Answers, Waited
<1>7. Stored'
  BY <1>1, Nones DEF Stored
<1>8. Reclaimed'
  BY <1>1 DEF IInv, Reclaimed, Stopped, Sending
<1> QED
  BY <1>2, <1>3, <1>4, <1>6, <1>7, <1>8 DEF IInv

(* The backend dies: at most one call with it, whose row stays.            *)
LEMMA CrashInductive ==
  ASSUME IInv, Crash
  PROVE  IInv'
<1>1. /\ up' = FALSE /\ crashes' = crashes + 1 /\ crashes + reboots < MaxFaults
      /\ cancelled' = [r \in Runs |-> FALSE]
      /\ UNCHANGED <<row, reboots, table, worker, hasty>>
  BY DEF Crash
<1>2. \A q, r \in Runs : pc[q] \in Active /\ pc[r] \in Active => q = r
  <2>1. \A r \in Runs : pc[r] \in Active => row.run = r
    BY DEF IInv, OneCall
  <2> QED
    BY <2>1
<1>3. crashes' \in 0 .. MaxFaults
  BY <1>1, Bounds DEF IInv, TypeOK
<1>4. CASE /\ \A r \in Runs : pc[r] \notin Active
           /\ UNCHANGED <<pc, tries, token, miss, ending, handler>>
  <2>1. TypeOK'
    BY <1>1, <1>3, <1>4 DEF IInv, TypeOK
  <2>2. Phased' /\ Fresh' /\ Handlers' /\ Working' /\ Queue' /\ Results' /\ Deduplicated'
    BY <1>1, <1>4 DEF IInv, Phased, Fresh, Handlers, Untouched, Working, Queue, Results,
              Deduplicated
  <2>3. OneCall'
    BY <1>1, <1>4 DEF IInv, OneCall
  <2>4. \A x : Reachable(x) => Reachable(x)'
    BY <1>1, <1>4 DEF Reachable, Gone, Sending
  <2>5. Answers' /\ Stored'
    BY <1>1, <1>4, <2>4 DEF IInv, Answers, Stored, Waited
  <2>6. Reclaimed'
    BY <1>1, <1>4 DEF IInv, Reclaimed, Stopped, Sending
  <2> QED
    BY <2>1, <2>2, <2>3, <2>5, <2>6 DEF IInv
<1>5. ASSUME NEW r \in Runs, pc[r] \in Active, Leave(r, "dead"),
             \/ pc[r] # "wait" /\ UNCHANGED handler
             \/ pc[r] = "wait" /\ Abandon(<<r, tries[r]>>)
      PROVE  IInv'
  <2> DEFINE t == <<r, tries[r]>>
  <2>1. /\ Located /\ Counted /\ token' \in [Runs -> Tokens \cup {None}]
        /\ ending' \in [Runs -> {None, "canceled", "failed"}]
        /\ pc'[r] = "dead" /\ tries'[r] = 0 /\ token'[r] = None /\ miss'[r] = 0
        /\ \A q \in Runs \ {r} : Kept(q)
    BY <1>5, LeaveEnds DEF IInv
  <2>2. pc[r] = "wait" => t \in Tokens /\ Run(t) = r
    <3>1. pc[r] = "wait" => tries[r] \in 1 .. MaxPosts
      BY Bounds DEF IInv, TypeOK, Phased
    <3> QED
      BY <3>1, TokenFacts
  <2>3. /\ posts' \in [Tokens -> {"none", "sent", "checked", "registered", "answered"}]
        /\ reply' \in [Tokens -> Tokens \cup {None, Full}]
        /\ \A u \in Tokens : posts'[u] \in {posts[u], "none"}
        /\ \A u \in Tokens : Run(u) # r => posts'[u] = posts[u] /\ reply'[u] = reply[u]
        /\ pc[r] = "wait" => posts'[t] # "answered"
        /\ pc[r] # "wait" => posts' = posts
        /\ \A u \in Tokens : u # t => posts'[u] = posts[u]
    <3>1. CASE pc[r] # "wait" /\ UNCHANGED handler
      BY <3>1 DEF IInv, TypeOK
    <3>2. CASE pc[r] = "wait" /\ Abandon(t)
      BY <2>2, <3>2 DEF IInv, TypeOK, Abandon
    <3> QED
      BY <1>5, <3>1, <3>2
  <2>4. \A u \in Tokens : posts'[u] = "answered" => Run(u) # r /\ posts[u] = "answered"
    <3>1. \A u \in Tokens : posts'[u] = "answered" => posts[u] = "answered"
      BY <2>3
    <3>2. \A u \in Tokens : posts[u] = "answered" /\ Run(u) = r => pc[r] = "wait" /\ u = t
      BY TokenFacts DEF IInv, Answers, Waited
    <3> QED
      BY <2>3, <3>1, <3>2
  <2>5. TypeOK'
    BY <1>1, <1>3, <2>1, <2>3 DEF IInv, TypeOK, Located, Counted
  <2>6. Phased'
    BY <2>1, Bounds DEF IInv, Phased, Kept
  <2>7. OneCall'
    BY <1>1, <1>2, <1>5, <2>1 DEF IInv, OneCall, Kept
  <2>8. Fresh'
    BY <1>1, <2>1, <2>3, TokenRun DEF IInv, Fresh, Untouched, Kept
  <2>9. Handlers' /\ Working' /\ Queue' /\ Deduplicated'
    BY <1>1, <2>3, TokenRun DEF IInv, Handlers, Untouched, Working, Queue, Deduplicated
  <2>10. Results'
    BY <1>1, <1>5, <2>1, TokenRun DEF IInv, Results, Kept
  <2>11. \A x \in Tokens : Reachable(x) => Reachable(x)'
    BY <1>1, <1>5, <2>1, <2>3, TokenRun DEF Reachable, Gone, Sending, Kept
  <2>12. Answers'
    BY <1>1, <2>1, <2>3, <2>4, <2>11, TokenRun DEF IInv, Answers, Waited, Kept
  <2>13. Stored'
    BY <1>1, <2>11 DEF IInv, Stored
  <2>14. row.run = r
    BY <1>5 DEF IInv, OneCall
  <2>15. Reclaimed'
    BY <1>1, <2>1, <2>3, <2>14 DEF IInv, Reclaimed, Stopped, Sending, Kept
  <2> QED
    BY <2>5, <2>6, <2>7, <2>8, <2>9, <2>10, <2>12, <2>13, <2>15 DEF IInv
<1> QED
  <2>1. CASE \A r \in Runs : pc[r] \notin Active
    BY <1>4, <2>1 DEF Crash
  <2>2. CASE \E r \in Runs : pc[r] \in Active
    <3>1. PICK r \in Runs : pc[r] \in Active /\ Leave(r, "dead")
      BY <2>2 DEF Crash
    <3>2. \A q \in Runs : pc[q] = "wait" => q = r
      BY <1>2, <3>1
    <3>3. \/ pc[r] # "wait" /\ UNCHANGED handler
          \/ pc[r] = "wait" /\ Abandon(<<r, tries[r]>>)
      BY <3>1, <3>2 DEF Crash
    <3> QED
      BY <1>5, <3>1, <3>3
  <2> QED
    BY <2>1, <2>2

(* The backend starts again: the token in the row, or the one under the    *)
(* client id, is the only job the dead call can have.                      *)
LEMMA RestartInductive ==
  ASSUME IInv, Restart
  PROVE  IInv'
<1> DEFINE t == IF row.token # None THEN row.token
                ELSE IF row.run # None THEN clientTokens[row.run] ELSE None
<1>1. /\ ~up /\ up' = TRUE /\ row' = NoRow /\ hasty \subseteq hasty'
      /\ \A r \in Runs \ hasty' : r = row.run =>
           \A u \in Tokens : Run(u) = r => posts[u] = "none"
      /\ UNCHANGED <<client, crashes, reboots, handler, clientTokens, worker>>
  BY DEF Restart
<1>2. IF t = None THEN jobs' = jobs ELSE jobs' \in Cancel(t)
  BY DEF Restart
<1>3. t \in Tokens \cup {None}
  BY DEF IInv, TypeOK
<1>4. t \in Tokens /\ ~CancelLost /\ Known(t) => jobs'[t].cancel
  BY <1>2, <1>3, Nones, CancelKeeps DEF IInv
<1>5. Alike(jobs') /\ SameResults(jobs')
  <2>1. CASE jobs' = jobs
    BY <2>1 DEF IInv, TypeOK, Alike, SameResults
  <2>2. CASE t \in Tokens /\ jobs' \in Cancel(t)
    BY <2>2, CancelKeeps DEF IInv
  <2> QED
    BY <1>2, <1>3, <2>1, <2>2
<1>6. TypeOK'
  <2>1. hasty' \subseteq Runs
    BY DEF IInv, TypeOK, Restart
  <2> QED
    BY <1>1, <1>5, <2>1 DEF IInv, TypeOK, Alike
<1>7. Phased' /\ OneCall'
  BY <1>1, Nones DEF IInv, Phased, OneCall
<1>8. Fresh' /\ Handlers'
  BY <1>1, <1>5 DEF IInv, Fresh, Handlers, Untouched, Alike
<1>9. Working' /\ Queue'
  BY <1>1, <1>5 DEF IInv, Working, Queue, Alike
<1>10. Results'
  BY <1>1, <1>5 DEF IInv, Results, Alike, SameResults
<1>11. Deduplicated'
  BY <1>1, <1>5 DEF IInv, Deduplicated, Alike
<1>12. \A x \in Tokens : Reachable(x) => Reachable(x)'
  BY <1>1, <1>5 DEF Reachable, Gone, Sending, Alike
<1>13. Answers'
  BY <1>1, <1>12 DEF IInv, Answers, Waited
<1>14. Stored'
  BY <1>1, Nones DEF Stored
<1>15. Reclaimed'
  <2> SUFFICES ASSUME ~CancelLost, NEW r \in Runs \ hasty', pc[r] = "dead"
               PROVE  Stopped(r)' /\ \A u \in Tokens : Run(u) = r => ~Sending(u)'
    BY <1>1 DEF Reclaimed
  <2>1. CASE row.run # r
    BY <1>1, <1>5, <2>1 DEF IInv, Reclaimed, Stopped, Sending, Alike
  <2>2. CASE row.run = r
    <3>1. \A u \in Tokens : Run(u) = r => ~Sending(u)'
      BY <1>1, <2>2 DEF Sending
    <3>2. \A u \in Tokens : Known(u) /\ Run(u) = r => clientTokens[r] = u
      BY <1>1 DEF IInv, Deduplicated
    <3>3. ASSUME NEW u \in Tokens, Known(u), Run(u) = r
          PROVE  t = u
      <4>1. CASE row.token = None
        BY <2>2, <3>2, <3>3, <4>1, Nones
      <4>2. CASE row.token # None
        <5>1. row.token \in Tokens /\ Run(row.token) = r
          BY <2>2, <4>2, Nones DEF IInv, OneCall
        <5>2. Reachable(row.token)
          BY <1>1, <5>1 DEF IInv, Stored
        <5>3. Known(row.token)
          BY <3>3, <5>1, <5>2 DEF Reachable, Gone
        <5> QED
          BY <3>2, <3>3, <4>2, <5>1, <5>3
      <4> QED
        BY <4>1, <4>2
    <3>4. Stopped(r)'
      BY <1>4, <1>5, <3>3 DEF Stopped, Alike
    <3> QED
      BY <3>1, <3>4
  <2> QED
    BY <2>1, <2>2
<1> QED
  BY <1>6, <1>7, <1>8, <1>9, <1>10, <1>11, <1>13, <1>14, <1>15 DEF IInv

(* The worker restarts: every answer under way names a token of a call     *)
(* that has nothing left.                                                  *)
LEMMA RebootInductive ==
  ASSUME IInv, Reboot
  PROVE  IInv'
<1>1. /\ crashes + reboots < MaxFaults /\ reboots' = reboots + 1 /\ work' = Idle
      /\ jobs' = [t \in Tokens |-> None] /\ clientTokens' = [r \in Runs |-> None]
      /\ taskq' = <<>>
      /\ posts' = [t \in Tokens |-> IF posts[t] = "answered" THEN "answered" ELSE "none"]
      /\ UNCHANGED <<client, row, up, crashes, reply, hasty>>
  BY DEF Reboot
<1>2. /\ \A u \in Tokens : ~Known(u)' /\ ~Sending(u)'
      /\ \A u \in Tokens : posts'[u] \in {"none", "answered"}
      /\ \A u \in Tokens : posts'[u] = "answered" <=> posts[u] = "answered"
  BY <1>1 DEF Sending
<1>3. reboots' \in 0 .. MaxFaults /\ reboots' # 0
  BY <1>1, Bounds DEF IInv, TypeOK
<1>4. TypeOK'
  BY <1>1, <1>3, Bounds DEF IInv, TypeOK
<1>5. Phased' /\ OneCall'
  BY <1>1 DEF IInv, Phased, OneCall
<1>6. Fresh'
  BY <1>1, <1>2, RangeEmpty, Nones DEF IInv, Fresh, Untouched
<1>7. Handlers' /\ Working' /\ Results'
  BY <1>1, <1>2 DEF Handlers, Working, Results
<1>8. Queue'
  BY <1>1, <1>2 DEF Queue, IsInjective
<1>9. Deduplicated'
  BY <1>1, <1>2, TokenRun DEF Deduplicated
<1>10. \A x \in Tokens : Reachable(x)'
  BY <1>2, <1>3 DEF Reachable, Gone
<1>11. Answers'
  BY <1>1, <1>2, <1>10 DEF IInv, Answers, Waited
<1>12. Stored'
  BY <1>1, <1>10 DEF Stored
<1>13. Reclaimed'
  BY <1>1, <1>2 DEF Reclaimed, Stopped
<1> QED
  BY <1>4, <1>5, <1>6, <1>7, <1>8, <1>9, <1>11, <1>12, <1>13 DEF IInv

(* Nothing changes.                                                        *)
LEMMA StutterInductive ==
  ASSUME IInv, UNCHANGED vars
  PROVE  IInv'
<1>1. UNCHANGED <<client, row, process, handler, table, worker, hasty>>
  BY DEF vars
<1>2. TypeOK'
  BY <1>1 DEF IInv, TypeOK
<1>3. Phased' /\ OneCall' /\ Fresh' /\ Handlers' /\ Working' /\ Queue' /\ Results' /\ Deduplicated'
  BY <1>1 DEF IInv, Phased, OneCall, Fresh, Handlers, Untouched, Working, Queue, Results,
              Deduplicated
<1>4. \A x : Reachable(x) => Reachable(x)'
  BY <1>1 DEF Reachable, Gone, Sending
<1>5. Answers' /\ Stored' /\ Reclaimed'
  BY <1>1, <1>4 DEF IInv, Answers, Stored, Waited, Reclaimed, Stopped, Sending
<1> QED
  BY <1>2, <1>3, <1>5 DEF IInv

(* Every step keeps the invariant.                                         *)
LEMMA StepInductive == IInv /\ [Next]_vars => IInv'
<1> SUFFICES ASSUME IInv, [Next]_vars PROVE IInv'
  OBVIOUS
<1>1. ASSUME NEW r \in Runs, Begin(r) \/ RunRemote(r) \/ UserCancels(r)
      PROVE  IInv'
  BY <1>1, BeginInductive, UserCancelsInductive, SubmitInductive, AnsweredInductive,
     SubmitLostInductive, RetryInductive, PollInductive, PollLostInductive, WakeInductive,
     CancelRemoteInductive, AckRemoteInductive DEF RunRemote
<1>2. CASE Enqueue
  BY <1>2, CheckPostInductive, RegisterInductive, PutInductive DEF Enqueue
<1>3. CASE JobWorker
  BY <1>3, GetInductive, FnReturnsInductive, FnRaisesInductive, ReportInductive DEF JobWorker
<1>4. CASE Settle \/ Crash \/ Restart \/ Reboot
  BY <1>4, SettleInductive, CrashInductive, RestartInductive, RebootInductive
<1>5. CASE UNCHANGED vars
  BY <1>5, StutterInductive
<1> QED
  BY <1>1, <1>2, <1>3, <1>4, <1>5 DEF Next

(* The inductive invariant holds of every reachable state.                 *)
THEOREM Invariant == Spec => []IInv
BY InitInductive, StepInductive, PTL DEF Spec

(* Every variable keeps its type: the bounds on attempts, missed polls and *)
(* the queue's length that run_remote and _enqueue enforce among them.     *)
THEOREM TypeCorrect == Spec => []TypeOK
<1>1. IInv => TypeOK
  BY DEF IInv
<1> QED
  BY <1>1, Invariant, PTL

(* However often a POST is sent again, the worker has one job for the call *)
(* (_enqueue deduplicates by client id), unless two handlers of its POSTs  *)
(* overlapped.                                                             *)
THEOREM SubmittedOnce == Spec => []EnqueuedOnce
<1>1. IInv => EnqueuedOnce
  BY TokenRun DEF IInv, Deduplicated, EnqueuedOnce
<1> QED
  BY <1>1, Invariant, PTL

(* A call that still polls finds its job, and the image of a finished one: *)
(* neither pruning nor a retry of the submit takes it away while the       *)
(* worker runs.                                                            *)
THEOREM ResultWaits == Spec => []ResultKept
<1>1. ASSUME IInv PROVE ResultKept
  <2> SUFFICES ASSUME NEW r \in Runs \ hasty, pc[r] \in {"poll", "sleep"}, reboots = 0
               PROVE  /\ Known(token[r])
                      /\ jobs[token[r]].status = "done" => jobs[token[r]].result # None
    BY DEF ResultKept
  <2>1. token[r] \in Tokens /\ Run(token[r]) = r
    BY <1>1 DEF IInv, Phased
  <2>2. row.token = token[r]
    BY <1>1 DEF IInv, OneCall
  <2>3. Known(token[r])
    BY <1>1, <2>1, <2>2 DEF IInv, Stored, Reachable
  <2> QED
    BY <1>1, <2>1, <2>3 DEF IInv, Results
<1> QED
  BY <1>1, Invariant, PTL

(* With a /cancel that arrives, neither an image nor the GPU time of a     *)
(* dead process is lost: the startup cancel by token or client id reaches  *)
(* every job the previous process had registered.                          *)
THEOREM NothingIsLost ==
  ASSUME ~CancelLost
  PROVE  Spec => []NothingLost
<1>1. ASSUME IInv PROVE DeadReclaimed
  <2> SUFFICES ASSUME NEW r \in Runs \ hasty, up, pc[r] = "dead"
               PROVE  Stopped(r)
    BY DEF DeadReclaimed
  <2>1. row.run # r
    BY <1>1 DEF IInv, OneCall
  <2> QED
    BY <1>1, <2>1 DEF IInv, Reclaimed
<1>2. IInv => DeadReclaimed
  BY <1>1
<1> QED
  BY <1>2, Invariant, ResultWaits, PTL DEF NothingLost
=============================================================================
