------------------------ MODULE ServerProcessProofs -------------------------
(***************************************************************************)
(* The process lifecycle for any set of concurrent requests: types, that   *)
(* the exit leaves no connection open, that only requests that had their   *)
(* time, or whose server failed, are cut off, and where it can hang.       *)
(***************************************************************************)
EXTENDS ServerProcess, SequenceTheorems, TLAPS

\* What pushing and popping does to the stacks of run.
LEMMA Push ==
    /\ <<"database">> \o <<"stop">> = <<"database", "stop">>
    /\ <<"redis">> \o <<"database", "stop">> = <<"redis", "database", "stop">>
<1> DEFINE S == {"redis", "database", "stop"}
<1>1. <<"database">> \o <<"stop">> = <<"database", "stop">>
  <2> DEFINE s == <<"database">> \o <<"stop">>  t == <<"database", "stop">>
  <2>1. <<"database">> \in Seq(S) /\ <<"stop">> \in Seq(S) /\ t \in Seq(S)
    OBVIOUS
  <2>2. s \in Seq(S) /\ Len(s) = 2 /\ s[1] = "database" /\ s[2] = "stop"
    BY <2>1, ConcatProperties
  <2>3. Len(s) = Len(t) /\ \A i \in 1 .. Len(s) : s[i] = t[i]
    BY <2>2
  <2> HIDE DEF S, s, t
  <2>4. s = t
    BY <2>1, <2>2, <2>3, SeqEqual
  <2> QED
    BY <2>4 DEF s, t
<1>2. <<"redis">> \o <<"database", "stop">> = <<"redis", "database", "stop">>
  <2> DEFINE s == <<"redis">> \o <<"database", "stop">>
             t == <<"redis", "database", "stop">>
  <2>1. <<"redis">> \in Seq(S) /\ <<"database", "stop">> \in Seq(S) /\ t \in Seq(S)
    OBVIOUS
  <2>2. s \in Seq(S) /\ Len(s) = 3 /\ s[1] = "redis" /\ s[2] = "database" /\ s[3] = "stop"
    BY <2>1, ConcatProperties
  <2>3. Len(s) = Len(t) /\ \A i \in 1 .. Len(s) : s[i] = t[i]
    BY <2>2
  <2> HIDE DEF S, s, t
  <2>4. s = t
    BY <2>1, <2>2, <2>3, SeqEqual
  <2> QED
    BY <2>4 DEF s, t
<1> QED
  BY <1>1, <1>2

LEMMA Pop ==
    /\ Head(<<"stop">>) = "stop" /\ Tail(<<"stop">>) = <<>>
    /\ Head(<<"database", "stop">>) = "database"
    /\ Tail(<<"database", "stop">>) = <<"stop">>
    /\ Head(<<"redis", "database", "stop">>) = "redis"
    /\ Tail(<<"redis", "database", "stop">>) = <<"database", "stop">>
  OBVIOUS

\* Stacks of different height are different.
LEMMA StacksDiffer ==
    /\ <<>> # <<"stop">> /\ <<>> # <<"database", "stop">>
    /\ <<>> # <<"redis", "database", "stop">>
    /\ <<"stop">> # <<"database", "stop">>
    /\ <<"stop">> # <<"redis", "database", "stop">>
    /\ <<"database", "stop">> # <<"redis", "database", "stop">>
<1>1. /\ Len(<<>>) = 0 /\ Len(<<"stop">>) = 1 /\ Len(<<"database", "stop">>) = 2
      /\ Len(<<"redis", "database", "stop">>) = 3
  OBVIOUS
<1> QED
  BY <1>1

-----------------------------------------------------------------------------
(* The steps, one by one. *)

LEMMA ProcessInvInit == ProcessInit => ProcessInv
<1> SUFFICES ASSUME ProcessInit PROVE ProcessInv
  OBVIOUS
<1> USE DEF ProcessInit
<1>1. ProcessTypeOK
  BY DEF ProcessTypeOK
<1>2. StackMatchesOpen
  BY StacksDiffer DEF StackMatchesOpen, DeferredAt, FullStack
<1>3. ServesOnlyBetween
  BY DEF ServesOnlyBetween, Active, Ending, After
<1>4. GraceGiven
  BY DEF GraceGiven, Ending
<1>5. WorkerOutlives
  BY DEF WorkerOutlives
<1> QED
  BY <1>1, <1>2, <1>3, <1>4, <1>5 DEF ProcessInv

LEMMA LoadInv ==
    ASSUME ProcessInv, NEW missing, Load(missing)
    PROVE  ProcessInv'
<1> USE DEF ProcessInv, Load
<1>1. ProcessTypeOK'
  BY DEF ProcessTypeOK, After
<1>2. StackMatchesOpen'
  BY StacksDiffer DEF StackMatchesOpen, DeferredAt, FullStack
<1>3. ServesOnlyBetween'
  BY DEF ServesOnlyBetween, Active, Ending, After
<1>4. GraceGiven'
  BY DEF GraceGiven, ServesOnlyBetween, Active, Ending, After
<1>5. WorkerOutlives'
  BY DEF WorkerOutlives, After
<1> QED
  BY <1>1, <1>2, <1>3, <1>4, <1>5

\* What has succeeded is open and will be closed, in reverse.
LEMMA ConnectedSteps ==
    ASSUME ProcessInv, Connected
    PROVE  \/ /\ phase = "database" /\ phase' = "redis"
              /\ deferred' = <<"database", "stop">> /\ open' = {"database"}
              /\ UNCHANGED <<worker, server>>
           \/ /\ phase = "redis" /\ phase' = "jwks"
              /\ deferred' = FullStack /\ open' = {"database", "redis"}
              /\ UNCHANGED <<worker, server>>
           \/ /\ phase = "jwks" /\ phase' = "storage"
              /\ UNCHANGED <<deferred, open, worker, server>>
           \/ /\ phase = "storage" /\ phase' = "serving"
              /\ worker' = "claim" /\ server' = "up"
              /\ UNCHANGED <<deferred, open>>
<1> USE DEF ProcessInv, Connected, StartServing
<1>1. CASE phase = "database"
  <2>1. deferred = <<"stop">> /\ open = {}
    BY <1>1, StacksDiffer DEF StackMatchesOpen, DeferredAt, FullStack, ProcessTypeOK
  <2> QED
    BY <1>1, <2>1, Push DEF Defer, After
<1>2. CASE phase = "redis"
  <2>1. deferred = DeferredAt["redis"]
    BY <1>2 DEF StackMatchesOpen, DeferredAt
  <2>2. deferred = <<"database", "stop">>
    BY <2>1 DEF DeferredAt
  <2>3. "database" \in open /\ "redis" \notin open
    BY <2>1, <2>2, StacksDiffer DEF StackMatchesOpen, FullStack
  <2>4. open = {"database"}
    BY <2>3 DEF ProcessTypeOK
  <2> QED
    BY <1>2, <2>2, <2>4, Push DEF Defer, After, FullStack
<1>3. CASE phase = "jwks"
  BY <1>3 DEF After
<1>4. CASE phase = "storage"
  BY <1>4 DEF After
<1> QED
  BY <1>1, <1>2, <1>3, <1>4 DEF After

LEMMA ConnectedInv ==
    ASSUME ProcessInv, Connected
    PROVE  ProcessInv'
<1> USE ConnectedSteps DEF ProcessInv
<1>0. UNCHANGED <<code, ctx, closing, req, expired, cut>>
  BY DEF Connected
<1>1. ProcessTypeOK'
  <2>1. /\ phase' \in {"redis", "jwks", "storage", "serving"}
        /\ open' \subseteq {"database", "redis"}
        /\ deferred' \in {deferred, <<"database", "stop">>, FullStack}
        /\ server' \in {server, "up"} /\ worker' \in {worker, "claim"}
    BY DEF ProcessTypeOK
  <2> QED
    BY <1>0, <2>1 DEF ProcessTypeOK, After, FullStack
<1>2. StackMatchesOpen'
  BY StacksDiffer DEF StackMatchesOpen, DeferredAt, FullStack
<1>3. ServesOnlyBetween'
  BY <1>0 DEF ServesOnlyBetween, Active, Ending, After
<1>4. GraceGiven'
  BY <1>0 DEF GraceGiven, Ending
<1>5. WorkerOutlives'
  BY <1>0 DEF WorkerOutlives, After
<1> QED
  BY <1>1, <1>2, <1>3, <1>4, <1>5

LEMMA NotConnectedInv ==
    ASSUME ProcessInv, NotConnected
    PROVE  ProcessInv'
<1> USE DEF ProcessInv, NotConnected
<1>1. ProcessTypeOK'
  BY DEF ProcessTypeOK
<1>2. StackMatchesOpen'
  BY StacksDiffer DEF StackMatchesOpen, DeferredAt
<1>3. ServesOnlyBetween'
  BY DEF ServesOnlyBetween, Active, Ending, After
<1>4. GraceGiven'
  BY DEF GraceGiven, ServesOnlyBetween, Active, Ending, After
<1>5. WorkerOutlives'
  BY DEF WorkerOutlives, After
<1> QED
  BY <1>1, <1>2, <1>3, <1>4, <1>5

LEMMA EndInv ==
    ASSUME ProcessInv, deferred = <<>>, phase # "exited", NEW c, End(c),
           c = "killed" \/ (phase = "return" /\ c = code)
    PROVE  ProcessInv'
<1> USE DEF ProcessInv, End
<1>0. Active' = {}
  BY DEF Active
<1>1. ProcessTypeOK'
  BY DEF ProcessTypeOK, Active
<1>2. StackMatchesOpen'
  BY StacksDiffer DEF StackMatchesOpen, DeferredAt
<1>3. ServesOnlyBetween'
  BY <1>0, StacksDiffer DEF ServesOnlyBetween, StackMatchesOpen, Ending, After, FullStack
<1>4. GraceGiven'
  <2>1. phase \in {"config", "return"}
    BY StacksDiffer DEF StackMatchesOpen, ProcessTypeOK, After, DeferredAt, FullStack
  <2>2. CASE phase = "config"
    BY <1>0, <2>2 DEF GraceGiven, ServesOnlyBetween, Ending
  <2>3. CASE phase = "return"
    BY <1>0, <2>3 DEF GraceGiven, Ending
  <2> QED
    BY <2>1, <2>2, <2>3
<1>5. WorkerOutlives'
  BY DEF WorkerOutlives, After
<1> QED
  BY <1>1, <1>2, <1>3, <1>4, <1>5

LEMMA SignalInv ==
    ASSUME ProcessInv, Signal
    PROVE  ProcessInv'
<1>1. CASE deferred = <<>>
  BY <1>1, EndInv DEF Signal
<1>2. CASE deferred # <<>>
  <2> USE <1>2 DEF ProcessInv, Signal
  <2>1. ProcessTypeOK'
    BY DEF ProcessTypeOK
  <2>2. StackMatchesOpen'
    BY DEF StackMatchesOpen
  <2>3. ServesOnlyBetween'
    BY DEF ServesOnlyBetween, Active, Ending
  <2>4. GraceGiven'
    BY DEF GraceGiven, Active, Ending
  <2>5. WorkerOutlives'
    BY DEF WorkerOutlives
  <2> QED
    BY <2>1, <2>2, <2>3, <2>4, <2>5
<1> QED
  BY <1>1, <1>2

\* A request or the worker goes on: nobody else notices.
LEMMA CallInv ==
    ASSUME ProcessInv,
           \/ /\ req' \in [Request -> {"none", "auth", "db", "s3"}]
              /\ Active # {} \/ (server \in {"up", "failed"} /\ phase # "exited")
              /\ UNCHANGED worker
           \/ /\ worker \in {"claim", "delete", "finish", "wait"}
              /\ worker' \in {"claim", "delete", "finish", "wait", "ended"}
              /\ UNCHANGED req,
           UNCHANGED <<phase, deferred, code, ctx, open, closing, server, expired>>,
           \/ UNCHANGED cut
           \/ /\ Active # {} \/ server = "failed"
              /\ Ending /\ cut' \subseteq Request
    PROVE  ProcessInv'
<1> USE DEF ProcessInv
<1>1. ProcessTypeOK'
  BY DEF ProcessTypeOK
<1>2. StackMatchesOpen'
  BY DEF StackMatchesOpen
<1>3. Active' # {} => Active # {} \/ (server \in {"up", "failed"} /\ phase # "exited")
  BY DEF Active
<1>4. ServesOnlyBetween'
  BY <1>3 DEF ServesOnlyBetween, Ending
<1>5. GraceGiven'
  BY <1>3 DEF GraceGiven, ServesOnlyBetween, Ending
<1>6. WorkerOutlives'
  BY DEF WorkerOutlives, ProcessTypeOK, After
<1> QED
  BY <1>1, <1>2, <1>4, <1>5, <1>6

LEMMA HandleInv ==
    ASSUME ProcessInv, NEW r \in Request, Handle(r)
    PROVE  ProcessInv'
<1>0. req \in [Request -> {"none", "auth", "db", "s3"}] /\ cut \subseteq Request
  BY DEF ProcessInv, ProcessTypeOK
<1>1. CASE Accept(r)
  BY <1>0, <1>1, CallInv DEF Accept, Arrives
<1>4. CASE Ready(r)
  <2>1. CASE ~ closing
    BY <1>0, <1>4, <2>1, CallInv DEF Ready, Arrives
  <2>2. CASE closing
    <3>1. Ending /\ server = "failed" /\ phase # "exited"
      BY <1>4, <2>2 DEF ProcessInv, ServesOnlyBetween, Ready, Arrives, Ending
    <3>2. cut' \subseteq Request /\ UNCHANGED req
      BY <1>0, <1>4, <2>2 DEF Ready
    <3> QED
      BY <1>0, <1>4, <3>1, <3>2, CallInv DEF Ready
  <2> QED
    BY <2>1, <2>2
<1>2. ASSUME NEW next \in {"db", "s3"}, Call(r, next) PROVE ProcessInv'
  BY <1>0, <1>2, CallInv DEF Call
<1>3. ASSUME Answer(r) PROVE ProcessInv'
  <2>1. r \in Active /\ req' \in [Request -> {"none", "auth", "db", "s3"}]
    BY <1>0, <1>3 DEF Answer
  <2>2. CASE UNCHANGED cut
    BY <1>3, <2>1, <2>2, CallInv DEF Answer
  <2>3. CASE closing \/ "redis" \notin open
    <3>1. phase \in {"serving", "shutdown", "return", "exited"}
      BY <2>1 DEF ProcessInv, ProcessTypeOK, ServesOnlyBetween, Active
    <3>2. Ending
      BY <2>3, <3>1 DEF ProcessInv, ServesOnlyBetween, StackMatchesOpen, Ending
    <3>3. cut' \subseteq Request
      BY <1>0, <1>3 DEF Answer
    <3> QED
      BY <1>3, <2>1, <3>2, <3>3, CallInv DEF Answer
  <2> QED
    BY <1>3, <2>2, <2>3 DEF Answer
<1> QED
  BY <1>1, <1>2, <1>3, <1>4 DEF Handle

LEMMA WorkerInv ==
    ASSUME ProcessInv, WorkerReturns \/ WorkerPolls
    PROVE  ProcessInv'
<1>1. /\ worker \in {"claim", "delete", "finish", "wait"}
      /\ worker' \in {"claim", "delete", "finish", "wait", "ended"}
  BY DEF WorkerReturns, WorkerPolls
<1> QED
  BY <1>1, CallInv DEF WorkerReturns, WorkerPolls

LEMMA ServerFailsInv ==
    ASSUME ProcessInv, ServerFails
    PROVE  ProcessInv'
<1> USE DEF ProcessInv, ServerFails
<1>1. ProcessTypeOK'
  BY DEF ProcessTypeOK
<1>2. StackMatchesOpen'
  BY DEF StackMatchesOpen
<1>3. ServesOnlyBetween'
  BY DEF ServesOnlyBetween, Active, Ending, After
<1>4. GraceGiven'
  BY DEF GraceGiven, ServesOnlyBetween, Active, Ending
<1>5. WorkerOutlives'
  BY DEF WorkerOutlives, ServesOnlyBetween
<1> QED
  BY <1>1, <1>2, <1>3, <1>4, <1>5

LEMMA SelectInv ==
    ASSUME ProcessInv, Select
    PROVE  ProcessInv'
<1> USE DEF ProcessInv, Select
<1>1. ProcessTypeOK'
  BY DEF ProcessTypeOK
<1>2. StackMatchesOpen'
  BY StacksDiffer DEF StackMatchesOpen, DeferredAt
<1>3. ServesOnlyBetween'
  BY DEF ServesOnlyBetween, Active, Ending, After
<1>4. GraceGiven'
  BY DEF GraceGiven, Ending
<1>5. WorkerOutlives'
  BY DEF WorkerOutlives, After
<1> QED
  BY <1>1, <1>2, <1>3, <1>4, <1>5

\* Shutdown leaves a request behind only with an error, when its time ran out.
LEMMA ShutdownInv ==
    ASSUME ProcessInv, Shutdown
    PROVE  ProcessInv'
<1> USE DEF ProcessInv, Shutdown
<1>0. Active' = Active
  BY DEF Active
<1>1. ProcessTypeOK'
  BY DEF ProcessTypeOK
<1>2. StackMatchesOpen'
  BY DEF StackMatchesOpen, DeferredAt
<1>3. ServesOnlyBetween'
  BY <1>0 DEF ServesOnlyBetween, Ending, After
<1>4. GraceGiven'
  BY <1>0 DEF GraceGiven, ServesOnlyBetween, Ending
<1>5. WorkerOutlives'
  BY DEF WorkerOutlives, After
<1> QED
  BY <1>1, <1>2, <1>3, <1>4, <1>5

\* A deferred call is popped together with the connection that it closes.
LEMMA RunDeferredInv ==
    ASSUME ProcessInv, RunDeferred
    PROVE  ProcessInv'
<1> USE DEF ProcessInv
<1>0. \/ /\ deferred = FullStack /\ deferred' = <<"database", "stop">>
         /\ open' = open \ {"redis"} /\ UNCHANGED <<ctx, closing>>
      \/ /\ deferred = <<"database", "stop">> /\ closing' = TRUE
         /\ UNCHANGED <<deferred, open, ctx>>
      \/ /\ deferred = <<"database", "stop">> /\ deferred' = <<"stop">>
         /\ open' = open \ {"database"} /\ UNCHANGED <<ctx, closing>>
      \/ /\ deferred = <<"stop">> /\ deferred' = <<>>
         /\ ctx' = "done" /\ UNCHANGED <<open, closing>>
  <2>1. deferred \in {<<"stop">>, <<"database", "stop">>, FullStack}
    BY DEF RunDeferred, ProcessTypeOK, FullStack
  <2>2. CASE deferred = <<"stop">>
    BY <2>2, Pop DEF RunDeferred
  <2>3. CASE deferred = <<"database", "stop">>
    BY <2>3, Pop DEF RunDeferred, PoolReturned
  <2>4. CASE deferred = FullStack
    BY <2>4, Pop DEF RunDeferred, FullStack
  <2> QED
    BY <2>1, <2>2, <2>3, <2>4
<1>1. phase = "return" /\ UNCHANGED <<phase, code, server, req, worker, expired, cut>>
  BY DEF RunDeferred
<1>2. ProcessTypeOK'
  <2>1. /\ deferred' \in {<<>>, <<"stop">>, <<"database", "stop">>, FullStack}
        /\ open' \subseteq open
        /\ ctx' \in {ctx, "done"}
        /\ closing' \in {closing, TRUE}
    BY <1>0
  <2> QED
    BY <2>1, <1>1 DEF ProcessTypeOK, FullStack
<1>3. StackMatchesOpen'
  <2>1. DeferredAt["redis"] = <<"database", "stop">> /\ phase \notin DOMAIN DeferredAt
    BY <1>1 DEF DeferredAt
  <2>2. /\ "redis" \in open <=> deferred = FullStack
        /\ "database" \in open <=> deferred \in {<<"database", "stop">>, FullStack}
    BY <2>1 DEF StackMatchesOpen
  <2>3. /\ "redis" \in open' <=> deferred' = FullStack
        /\ "database" \in open' <=> deferred' \in {<<"database", "stop">>, FullStack}
    BY <1>0, <2>2, StacksDiffer DEF FullStack
  <2> QED
    BY <1>1, <2>1, <2>3 DEF StackMatchesOpen, DeferredAt
<1>4. ServesOnlyBetween'
  BY <1>1 DEF ServesOnlyBetween, Active, Ending, After
<1>5. GraceGiven'
  BY <1>1 DEF GraceGiven, Active, Ending
<1>6. WorkerOutlives'
  BY <1>0, <1>1 DEF WorkerOutlives, After
<1> QED
  BY <1>2, <1>3, <1>4, <1>5, <1>6

LEMMA ProcessInvNext ==
    ASSUME ProcessInv, [ProcessNext]_pvars
    PROVE  ProcessInv'
<1>1. ASSUME NEW missing \in SUBSET Required, Load(missing) PROVE ProcessInv'
  BY <1>1, LoadInv
<1>2. CASE Connected
  BY <1>2, ConnectedInv
<1>3. CASE NotConnected
  BY <1>3, NotConnectedInv
<1>4. CASE Select
  BY <1>4, SelectInv
<1>5. CASE Shutdown
  BY <1>5, ShutdownInv
<1>6. CASE RunDeferred
  BY <1>6, RunDeferredInv
<1>7. CASE Exit
  BY <1>7, EndInv DEF Exit
<1>8. CASE Signal
  BY <1>8, SignalInv
<1>9. CASE ServerFails
  BY <1>9, ServerFailsInv
<1>10. CASE WorkerReturns \/ WorkerPolls
  BY <1>10, WorkerInv
<1>11. ASSUME NEW r \in Request, Handle(r) PROVE ProcessInv'
  BY <1>11, HandleInv
<1>12. CASE UNCHANGED pvars
  <2> USE <1>12 DEF pvars, ProcessInv
  <2>1. ProcessTypeOK'
    BY DEF ProcessTypeOK
  <2>2. StackMatchesOpen'
    BY DEF StackMatchesOpen
  <2>3. ServesOnlyBetween'
    BY DEF ServesOnlyBetween, Active, Ending
  <2>4. GraceGiven'
    BY DEF GraceGiven, Active, Ending
  <2>5. WorkerOutlives'
    BY DEF WorkerOutlives
  <2> QED
    BY <2>1, <2>2, <2>3, <2>4, <2>5
<1> QED
  BY <1>1, <1>2, <1>3, <1>4, <1>5, <1>6, <1>7, <1>8, <1>9, <1>10, <1>11, <1>12
  DEF ProcessNext, Run

-----------------------------------------------------------------------------
(* The theorems. *)

\* The stack of deferred calls of run, the connections that are open and the
\* requests that are alive fit the statement run is at, in every process.
THEOREM ProcessInductive == ProcessSpec => []ProcessInv
  BY ProcessInvInit, ProcessInvNext, PTL DEF ProcessSpec

\* The variables of the process keep their types; run never defers a call twice.
THEOREM ProcessTypes == ProcessSpec => []ProcessTypeOK
<1>1. ProcessInv => ProcessTypeOK
  BY DEF ProcessInv
<1> QED
  BY <1>1, ProcessInductive, PTL

\* Whichever step of the start fails, and wherever a signal strikes, run has
\* closed the pool and the Redis client when the process exits.
THEOREM ExitClosesAll == ProcessSpec => []ClosedAtExit
<1>1. ProcessInv => ClosedAtExit
  <2> SUFFICES ASSUME ProcessInv, phase = "exited" PROVE open = {}
    BY DEF ClosedAtExit
  <2>1. deferred = <<>> /\ DeferredAt["redis"] = <<"database", "stop">>
    BY DEF ProcessInv, StackMatchesOpen, DeferredAt
  <2>2. "redis" \notin open /\ "database" \notin open
    BY <2>1, StacksDiffer DEF ProcessInv, StackMatchesOpen, FullStack
  <2> QED
    BY <2>2 DEF ProcessInv, ProcessTypeOK
<1> QED
  BY <1>1, ProcessInductive, PTL

\* Any number of requests: run closes connections under one, or exits before it
\* is answered, only when the shutdown timeout ran out or the server had failed,
\* and then never reports success.
THEOREM GraceBeforeCut == ProcessSpec => []CutOnlyAfterGrace
<1>1. ProcessInv => CutOnlyAfterGrace
  BY DEF ProcessInv, GraceGiven, ServesOnlyBetween, CutOnlyAfterGrace
<1> QED
  BY <1>1, ProcessInductive, PTL

\* The circular wait of db.Close and the worker's query is possible in no process
\* but one whose server failed, for any number of requests.
THEOREM HangMeansFailure == ProcessSpec => []HangsOnlyAfterFailure
<1>1. ProcessInv => HangsOnlyAfterFailure
  <2> SUFFICES ASSUME ProcessInv, CloseHangs PROVE server = "failed" /\ code = "error"
    BY DEF HangsOnlyAfterFailure
  <2>1. closing /\ worker \in {"claim", "finish"} /\ ctx = "live"
    BY DEF CloseHangs, WorkerHolds
  <2>2. phase = "return"
    BY <2>1 DEF ProcessInv, ServesOnlyBetween, WorkerOutlives, Ending
  <2> QED
    BY <2>1, <2>2 DEF ProcessInv, WorkerOutlives
<1> QED
  BY <1>1, ProcessInductive, PTL

=============================================================================
