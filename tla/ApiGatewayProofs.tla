-------------------------- MODULE ApiGatewayProofs --------------------------
(***************************************************************************)
(* For every set of deployments, requests and ids: who is served, what     *)
(* readiness promises, and one correlation id an answer.                   *)
(***************************************************************************)
EXTENDS ApiGateway, TLAPS

\* An id that may name the request.
Names(id) ==
  /\ id \notin {None, Empty}
  /\ request.id \notin {None, Empty} => id = request.id

Clean == answer = None /\ sent = None /\ state_id = None /\ local_id = None

\* What the variables hold in each phase of a request.
Phases ==
  /\ pc \in {"idle", "middleware", "endpoint", "database", "return"}
  /\ request = None => pc = "idle" /\ Clean
  /\ pc = "middleware" => Clean
  /\ pc \in {"endpoint", "database", "return"} =>
       state_id = local_id /\ Names(local_id)
  /\ pc \in {"endpoint", "database"} => answer = None
  /\ pc = "database" => request.endpoint = "database"

\* What other than a key may end a request in the handler of errors.
Faulted == request.endpoint = "database" \/ request.payload = Unprintable

\* Which answers are given, and the ids they carry.
Answers ==
  (pc = "return" \/ answer # None) =>
    /\ DOMAIN answer = {"status", "body_id", "header_id", "data", "confidence"}
    /\ answer.status = 503 => ReadyStatus # 200
    /\ (answer.status = 401 \/ (answer.status = 500 /\ ~Faulted))
       /\ NeedsKey /\ request.key = env.key =>
         env.key \in Unusual \/ ReadyStatus # 200
    /\ answer.status = 422 => ~Valid
    /\ answer.body_id = None => request.endpoint \in {"/", "/docs", "unknown"}
    /\ pc = "return" => answer.body_id \in {None, local_id}
    /\ pc = "idle" => answer.body_id \in {None, answer.header_id} /\ Names(answer.header_id)

\* The exchange with Database_Agent is the one the deployment means.
Exchange ==
  (sent # None /\ ReadyStatus = 200 /\ DatabaseRequired) =>
    /\ sent.key = env.database_key /\ sent.key \notin {None, Empty, Blank}
    /\ sent.url = IF env.runtime_url \notin {None, Empty, Blank}
                  THEN env.runtime_url ELSE env.database_url
    /\ sent.url \notin {None, Empty, Blank, Slashes}

IInv == Phases /\ Answers /\ Exchange /\ OnlyKeyHoldersServed

-----------------------------------------------------------------------------
\* What is read from the variables stays as long as they do.
LEMMA SameDeployment ==
  ASSUME env' = env
  PROVE  /\ AuthEnabled' = AuthEnabled /\ DatabaseRequired' = DatabaseRequired
         /\ ConfiguredKey' = ConfiguredKey
         /\ DatabaseUrl' = DatabaseUrl /\ DatabaseKey' = DatabaseKey
         /\ ReadyStatus' = ReadyStatus
  BY DEF AuthEnabled, DatabaseRequired, Flag, ConfiguredKey, DatabaseUrl,
         DatabaseKey, DatabaseReady, ReadyStatus

\* A request is as valid later as before.
LEMMA SameValidity ==
  ASSUME request' = request
  PROVE  Valid' = Valid
  BY DEF Valid, Shadow!ValidRequest

\* The readiness that /ready reports has a key to compare with.
LEMMA ReadyHasKey ==
  ReadyStatus = 200 /\ AuthEnabled => ConfiguredKey # None
  BY DEF ReadyStatus

\* In the middleware the id drawn names the request.
LEMMA IdentifiedNames ==
  ASSUME NEW id, Phases, pc = "middleware", Identified(id)
  PROVE  Names(id)
  BY GatewayAssumption DEF Phases, Clean, Identified, Names

\* After the middleware the id is the one already given.
LEMMA IdentifiedAgain ==
  ASSUME NEW id, Phases, pc \in {"endpoint", "database"}, Identified(id)
  PROVE  id = local_id /\ id = state_id /\ id # None
  BY DEF Phases, Identified, Names

\* The refusals of the middleware keep the invariant.
LEMMA RefusalsKeep ==
  ASSUME IInv, NEW id, RefuseUnconfigured(id) \/ CompareFails(id) \/ RefuseKey(id)
  PROVE  IInv'
<1>1. /\ pc = "middleware" /\ pc' = "idle" /\ Identified(id)
      /\ env' = env /\ request' = request /\ sent' = sent
      /\ NeedsKey /\ request # None
  BY DEF RefuseUnconfigured, CompareFails, RefuseKey, Middleware, Protected,
         NeedsKey, IInv, Phases
<1>2. Names(id)
  BY <1>1, IdentifiedNames DEF IInv
<1>3. sent = None
  BY <1>1 DEF IInv, Phases, Clean
<1>4. Phases'
  BY <1>1 DEF Phases
<1>5. Exchange'
  BY <1>1, <1>3 DEF Exchange
<1>6. OnlyKeyHoldersServed'
  BY <1>1, <1>3 DEF OnlyKeyHoldersServed
<1>7. Answers'
  <2>1. CASE RefuseUnconfigured(id)
    <3>1. answer' = Error(503, id) /\ ReadyStatus # 200
      BY <2>1, ReadyHasKey DEF RefuseUnconfigured
    <3> QED
      BY <3>1, <1>1, <1>2, SameDeployment DEF Answers, Error, Names
  <2>2. CASE CompareFails(id)
    <3>1. answer' = Error(500, id)
      BY <2>2 DEF CompareFails
    <3>2. request.key = env.key => env.key \in Unusual
      BY <2>2 DEF CompareFails, Incomparable, ConfiguredKey
    <3> QED
      BY <3>1, <3>2, <1>1, <1>2, SameDeployment DEF Answers, Error, Names
  <2>3. CASE RefuseKey(id)
    <3>1. answer' = Error(401, id)
      BY <2>3 DEF RefuseKey
    <3>2. request.key # env.key
      BY <2>3 DEF RefuseKey, ValidKey, ConfiguredKey
    <3> QED
      BY <3>1, <3>2, <1>1, <1>2, SameDeployment DEF Answers, Error, Names
  <2> QED
    BY <2>1, <2>2, <2>3
<1> QED
  BY <1>4, <1>5, <1>6, <1>7 DEF IInv

\* So does the way into the endpoints.
LEMMA AdmitKeeps ==
  ASSUME IInv, NEW id, Admit(id)
  PROVE  IInv'
<1>1. /\ pc = "middleware" /\ pc' = "endpoint" /\ Identified(id)
      /\ env' = env /\ request' = request /\ sent' = sent /\ answer' = answer
      /\ state_id' = id /\ local_id' = id
      /\ request # None /\ answer = None /\ sent = None
  BY DEF Admit, Middleware, IInv, Phases, Clean
<1>2. Names(id)
  BY <1>1, IdentifiedNames DEF IInv
<1>3. Phases'
  BY <1>1, <1>2 DEF Phases, Names
<1>4. Answers' /\ Exchange'
  BY <1>1 DEF Answers, Exchange
<1>5. OnlyKeyHoldersServed'
  <2>1. NeedsKey => request.key = env.key /\ env.key \notin {None, Empty}
    BY DEF Admit, NeedsKey, Protected, ValidKey, ConfiguredKey
  <2> QED
    BY <2>1, <1>1, SameDeployment DEF OnlyKeyHoldersServed, NeedsKey
<1> QED
  BY <1>3, <1>4, <1>5 DEF IInv

\* What an endpoint returns under the id of its request keeps the invariant.
LEMMA ReturnKeeps ==
  ASSUME IInv, pc \in {"endpoint", "database"}, sent' = sent,
         NEW status, NEW id, NEW data, NEW confidence,
         Return(status, id, data, confidence),
         \/ status \in {200, 404, 502} \/ status = ReadyStatus
         \/ status = 422 /\ ~Valid,
         \/ id = local_id /\ id # None
         \/ id = None /\ request.endpoint \in {"/", "/docs", "unknown"}
  PROVE  IInv'
<1>1. /\ pc' = "return" /\ env' = env /\ request' = request /\ local_id' = local_id
      /\ answer' = [status |-> status, body_id |-> id, header_id |-> None,
                    data |-> data, confidence |-> confidence]
      /\ state_id' = state_id \/ state_id' = local_id
  BY DEF Return
<1>2. request # None /\ state_id = local_id /\ Names(local_id)
  BY DEF IInv, Phases
<1>3. Phases'
  BY <1>1, <1>2 DEF Phases, Names
<1>4. Answers'
  <2>1. /\ status \notin {401, 500} /\ (status = 503 => ReadyStatus # 200)
        /\ status = 422 => ~Valid
    BY DEF ReadyStatus
  <2>2. Valid' = Valid
    BY <1>1, SameValidity
  <2> QED
    BY <2>1, <2>2, <1>1, SameDeployment DEF Answers
<1>5. Exchange'
  BY <1>1, SameDeployment DEF IInv, Exchange
<1>6. OnlyKeyHoldersServed'
  BY <1>1, SameDeployment DEF IInv, OnlyKeyHoldersServed, NeedsKey
<1> QED
  BY <1>3, <1>4, <1>5, <1>6 DEF IInv

\* An endpoint that asks Database_Agent asks the one deployed.
LEMMA AskDatabaseKeeps ==
  ASSUME IInv, AskDatabase
  PROVE  IInv'
<1>1. /\ pc = "endpoint" /\ pc' = "database" /\ env' = env /\ request' = request
      /\ request.endpoint = "database"
      /\ state_id' = state_id /\ local_id' = local_id /\ answer' = answer
  BY DEF AskDatabase
<1>2. request # None /\ answer = None
  BY <1>1 DEF IInv, Phases
<1>3. Phases'
  BY <1>1, <1>2 DEF IInv, Phases, Names
<1>4. Answers'
  BY <1>1, <1>2 DEF Answers
<1>5. Exchange'
  <2>1. sent' = [url |-> IF DatabaseUrl \in {None, Empty} THEN Localhost ELSE DatabaseUrl,
                 key |-> DatabaseKey]
    BY DEF AskDatabase
  <2>2. ASSUME ReadyStatus = 200, DatabaseRequired
        PROVE  DatabaseUrl \notin {None, Empty} /\ DatabaseKey # None
    BY <2>2 DEF ReadyStatus, DatabaseReady
  <2>3. ASSUME ReadyStatus = 200, DatabaseRequired
        PROVE  /\ DatabaseKey = env.database_key /\ DatabaseKey \notin {None, Empty, Blank}
               /\ DatabaseUrl = IF env.runtime_url \notin {None, Empty, Blank}
                                THEN env.runtime_url ELSE env.database_url
               /\ DatabaseUrl \notin {None, Empty, Blank, Slashes}
    BY <2>2, <2>3 DEF DatabaseKey, DatabaseUrl
  <2> QED
    BY <2>1, <2>2, <2>3, <1>1, SameDeployment DEF Exchange
<1>6. OnlyKeyHoldersServed'
  BY <1>1, SameDeployment DEF IInv, OnlyKeyHoldersServed, NeedsKey
<1> QED
  BY <1>3, <1>4, <1>5, <1>6 DEF IInv

\* A reply that cannot be read, or not be written, is answered under the id
\* of the request.
LEMMA ErrorKeeps ==
  ASSUME IInv, NEW id, DatabaseMisreplies(id) \/ FailToPrint(id)
  PROVE  IInv'
<1>1. /\ pc \in {"endpoint", "database"} /\ pc' = "idle"
      /\ env' = env /\ request' = request
      /\ state_id' = state_id /\ local_id' = local_id /\ sent' = sent
      /\ answer' = Error(500, id) /\ Identified(id)
  BY DEF DatabaseMisreplies, FailToPrint
<1>2. request # None /\ Names(local_id) /\ id = local_id /\ id # None
      /\ Faulted
  BY <1>1, IdentifiedAgain DEF IInv, Phases, Faulted, DatabaseMisreplies, FailToPrint
<1>3. Phases'
  BY <1>1, <1>2 DEF Phases
<1>4. Answers'
  BY <1>1, <1>2 DEF Answers, Error, Names, Faulted
<1>5. Exchange' /\ OnlyKeyHoldersServed'
  BY <1>1, SameDeployment DEF IInv, Exchange, OnlyKeyHoldersServed, NeedsKey
<1> QED
  BY <1>3, <1>4, <1>5 DEF IInv

\* The middleware completes the answer with its id.
LEMMA RespondKeeps ==
  ASSUME IInv, Respond
  PROVE  IInv'
<1>1. /\ pc = "return" /\ pc' = "idle" /\ env' = env /\ request' = request
      /\ state_id' = state_id /\ local_id' = local_id /\ sent' = sent
  BY DEF Respond
<1>2. request # None /\ Names(local_id)
  BY <1>1 DEF IInv, Phases
<1>3. Phases'
  BY <1>1, <1>2 DEF Phases
<1>4. Answers'
  <2>1. answer' = [x \in DOMAIN answer |->
                     IF x = "header_id" THEN local_id ELSE answer[x]]
    BY Zenon DEF Respond
  <2> QED
    BY <2>1, <1>1, <1>2, SameDeployment, SameValidity
       DEF IInv, Answers, Names, NeedsKey, Faulted
<1>5. Exchange'
  BY <1>1, SameDeployment DEF IInv, Exchange
<1>6. OnlyKeyHoldersServed'
  BY <1>1, SameDeployment DEF IInv, OnlyKeyHoldersServed, NeedsKey
<1> QED
  BY <1>3, <1>4, <1>5, <1>6 DEF IInv

-----------------------------------------------------------------------------
\* A service that is not at work on a request keeps nothing of one.
LEMMA InitHolds == Init => IInv
  BY DEF Init, IInv, Phases, Clean, Answers, Exchange, OnlyKeyHoldersServed, NeedsKey

\* Every step of the service keeps the invariant.
LEMMA NextKeeps == IInv /\ [Next]_vars => IInv'
<1> SUFFICES ASSUME IInv, [Next]_vars PROVE IInv'
  OBVIOUS
<1>1. ASSUME NEW variables \in Deployments, Deploy(variables) PROVE IInv'
  BY <1>1 DEF Deploy, IInv, Phases, Clean, Answers, Exchange,
              OnlyKeyHoldersServed, NeedsKey
<1>2. ASSUME NEW q \in Requests, Receive(q) PROVE IInv'
  BY <1>2, GatewayAssumption
     DEF Receive, IInv, Phases, Clean, Answers, Exchange, OnlyKeyHoldersServed
<1>3. ASSUME Deliver PROVE IInv'
  BY <1>3 DEF Deliver, IInv, Phases, Clean, Answers, Exchange,
              OnlyKeyHoldersServed, NeedsKey
<1>4. ASSUME NEW id, RefuseUnconfigured(id) \/ CompareFails(id) \/ RefuseKey(id)
      PROVE  IInv'
  BY <1>4, RefusalsKeep
<1>5. ASSUME NEW id, Admit(id) PROVE IInv'
  BY <1>5, AdmitKeeps
<1>6. ASSUME NEW id, Refuse(id) PROVE IInv'
  <2>1. /\ pc = "endpoint" /\ Identified(id) /\ sent' = sent /\ ~Valid
        /\ Return(422, id, None, None)
    BY <1>6 DEF Refuse
  <2> QED
    BY <2>1, IdentifiedAgain, ReturnKeeps DEF IInv
<1>7. ASSUME NEW id, Ready(id) PROVE IInv'
  <2> DEFINE confidence == IF ReadyStatus = 200 THEN 1 ELSE 0
  <2>1. /\ pc = "endpoint" /\ Identified(id) /\ sent' = sent
        /\ Return(ReadyStatus, id, FailedChecks, confidence)
    BY <1>7 DEF Ready
  <2> HIDE DEF confidence
  <2> QED
    BY <2>1, IdentifiedAgain, ReturnKeeps DEF IInv
<1>8. ASSUME NEW id, Compute(id) PROVE IInv'
  <2>1. /\ pc = "endpoint" /\ Identified(id) /\ sent' = sent
        /\ Return(200, id, Computed[1], Computed[2])
    BY <1>8 DEF Compute
  <2> QED
    BY <2>1, IdentifiedAgain, ReturnKeeps DEF IInv
<1>9. ASSUME NEW id, DatabaseAnswers(id) PROVE IInv'
  <2>1. /\ pc = "database" /\ Identified(id) /\ sent' = sent
        /\ Return(200, id, request.endpoint, None)
    BY <1>9 DEF DatabaseAnswers
  <2> QED
    BY <2>1, IdentifiedAgain, ReturnKeeps DEF IInv
<1>10. ASSUME NEW id, DatabaseFails(id) PROVE IInv'
  <2>1. pc = "database" /\ Identified(id) /\ sent' = sent /\ Return(502, id, None, None)
    BY <1>10 DEF DatabaseFails
  <2> QED
    BY <2>1, IdentifiedAgain, ReturnKeeps DEF IInv
<1>11. ASSUME NEW id, DatabaseMisreplies(id) \/ FailToPrint(id) PROVE IInv'
  BY <1>11, ErrorKeeps
<1>12. ASSUME Plain PROVE IInv'
  <2> DEFINE status == IF request.endpoint = "unknown" THEN 404 ELSE 200
  <2>1. /\ pc = "endpoint" /\ request.endpoint \in {"/", "/docs", "unknown"}
        /\ sent' = sent /\ Return(status, None, None, None)
    BY <1>12 DEF Plain
  <2>2. status \in {200, 404, 502}
    OBVIOUS
  <2> HIDE DEF status
  <2> QED
    BY <2>1, <2>2, ReturnKeeps
<1>13. ASSUME AskDatabase PROVE IInv'
  BY <1>13, AskDatabaseKeeps
<1>14. ASSUME Respond PROVE IInv'
  BY <1>14, RespondKeeps
<1>15. ASSUME UNCHANGED vars PROVE IInv'
  <2>1. /\ env' = env /\ pc' = pc /\ request' = request /\ state_id' = state_id
        /\ local_id' = local_id /\ sent' = sent /\ answer' = answer
    BY <1>15 DEF vars
  <2>2. Phases'
    BY <2>1 DEF IInv, Phases, Clean, Names
  <2>3. Answers'
    BY <2>1, SameDeployment, SameValidity DEF IInv, Answers, Names, NeedsKey, Faulted
  <2>4. Exchange' /\ OnlyKeyHoldersServed'
    BY <2>1, SameDeployment DEF IInv, Exchange, OnlyKeyHoldersServed, NeedsKey
  <2> QED
    BY <2>2, <2>3, <2>4 DEF IInv
<1> QED
  BY <1>1, <1>2, <1>3, <1>4, <1>5, <1>6, <1>7, <1>8, <1>9, <1>10, <1>11, <1>12,
     <1>13, <1>14, <1>15 DEF Next

\* The invariant holds in every behaviour.
LEMMA Invariance == Spec => []IInv
  BY InitHolds, NextKeeps, PTL DEF Spec

(* However the service is deployed and whatever is asked of it, a request   *)
(* that needs the key reaches an endpoint, and Database_Agent, only with    *)
(* the key the service was deployed with.                                   *)
THEOREM KeyHoldersOnly == Spec => []OnlyKeyHoldersServed
<1>1. IInv => OnlyKeyHoldersServed
  BY DEF IInv
<1> QED
  BY <1>1, Invariance, PTL

(* What /ready reports with 200 holds for the requests that follow: the     *)
(* holder of the key is served, nobody is told that configuration is        *)
(* missing, and Database_Agent is asked as deployed.                        *)
THEOREM ReadinessKept == Spec => []ReadyMeansServed
<1>1. IInv => ReadyMeansServed
  BY DEF IInv, Answers, Faulted, Exchange, ReadyMeansServed, Answered, Phases, Clean
<1> QED
  BY <1>1, Invariance, PTL

(* Every answer carries one correlation id, in header and body, and the     *)
(* caller's if it sent one.                                                 *)
THEOREM OneIdPerAnswer == Spec => []OneCorrelationId
<1>1. IInv => OneCorrelationId
  BY DEF IInv, Answers, OneCorrelationId, Answered, Names
<1> QED
  BY <1>1, Invariance, PTL
=============================================================================
