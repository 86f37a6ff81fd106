-------------------------------- MODULE Fetch --------------------------------
(***************************************************************************)
(* The network organ (core/src/net.rs): one fetch after another through    *)
(* the firmware's HTTP driver.  A fetch finds a nic, waits a while for a   *)
(* lease, opens a child of the driver, sends up to Gets requests while     *)
(* servers redirect it, and closes the child.  The driver completes the    *)
(* two tokens of a request when it likes; the core polls for that, within  *)
(* a bound.  Any call to the firmware may fail.                            *)
(***************************************************************************)
EXTENDS Naturals

CONSTANTS Url,         \* the addresses there are to ask for
          Code,        \* what a server may answer, as http_code reads it
          Redirect,    \* the codes that may redirect (301 and 302)
          Unset,       \* http_code of a status that was never written (9000)
          Gets,        \* requests a fetch may send (3)
          LeasePolls,  \* times the lease is looked for (12 s of half seconds)
          TokenPolls   \* times a token is looked at (15 s of 20 ms)

ASSUME FetchAssumption ==
  /\ Redirect \subseteq Code /\ Unset \notin Code
  /\ {Gets, LeasePolls, TokenPolls} \subseteq Nat \ {0}

\* Neither an address nor a page: no Location, no page in the buffer yet.
Nothing == "nothing"

VARIABLES pc,        \* where the core is; "idle" between two fetches
          url,       \* the address asked for now
          gets,      \* requests left
          waited,    \* polls of the wait the core is in
          children,  \* open children of the driver
          request,   \* the token of the request, and that of its response:
          response,  \*   none, held by the driver, done, failed
          page,      \* the status and the Location the driver has written
          body,      \* whose page the buffer holds
          answer     \* what the last fetch returned
core == << pc, url, gets, waited, answer >>
driver == << children, request, response, page, body >>
vars == << core, driver >>

Token == {"none", "held", "done", "failed"}
Page == [code : Code \cup {Unset}, location : Url \cup {Nothing}]
Answer == [ok : BOOLEAN, url : Url \cup {Nothing}, code : Code \cup {Unset}]
Blank == [code |-> Unset, location |-> Nothing]
Err == [ok |-> FALSE, url |-> Nothing, code |-> Unset]

Init ==
  /\ pc = "idle" /\ url \in Url /\ gets = 0 /\ waited = 0 /\ answer = Err
  /\ children = 0 /\ request = "none" /\ response = "none"
  /\ page = Blank /\ body = Nothing

---------------------------------------------------------------------------
(* fetch, up to the open child.                                            *)

GoTo(place) == pc' = place
Fail == GoTo("idle") /\ answer' = Err

\* The boot probe, web.get or web.save asks for a page.
Fetch(u) ==
  /\ pc = "idle" /\ GoTo("lookup")
  /\ url' = u /\ gets' = Gets /\ answer' = Err
  /\ body' = Nothing
  /\ UNCHANGED << waited, children, request, response, page >>

Lookup ==
  /\ pc = "lookup"
  /\ \/ GoTo("lease") /\ waited' = 0 /\ UNCHANGED answer
     \/ Fail /\ UNCHANGED waited
  /\ UNCHANGED << url, gets, driver >>

\* Leased or not, the fetch goes on: it will show the consequence.
EnsureDhcp ==
  /\ pc = "lease"
  /\ \/ GoTo("create") /\ UNCHANGED waited
     \/ /\ waited' = waited + 1
        /\ IF waited + 1 < LeasePolls THEN UNCHANGED pc ELSE GoTo("create")
  /\ UNCHANGED << url, gets, answer, driver >>

CreateChild ==
  /\ pc = "create"
  /\ \/ GoTo("configure") /\ children' = children + 1 /\ UNCHANGED answer
     \/ Fail /\ UNCHANGED children
  /\ UNCHANGED << url, gets, waited, request, response, page, body >>

\* mutant: a child that cannot be configured is left to the firmware
ConfigureLeaking ==
  /\ pc = "configure"
  /\ \/ GoTo("request") /\ UNCHANGED answer
     \/ Fail
  /\ UNCHANGED << url, gets, waited, driver >>

\* A child without the protocol, or that cannot be configured, is destroyed.
Configure ==
  /\ pc = "configure"
  /\ \/ GoTo("request") /\ UNCHANGED << answer, children >>
     \/ Fail /\ children' = children - 1
  /\ UNCHANGED << url, gets, waited, request, response, page, body >>

---------------------------------------------------------------------------
(* do_get: a request, its completion, the response, its completion.        *)

Submit ==
  /\ pc = "request"
  /\ \/ GoTo("requested") /\ request' = "held" /\ waited' = 0
     \/ GoTo("abort") /\ UNCHANGED << request, waited >>
  /\ response' = "none"
  /\ UNCHANGED << url, gets, answer, children, page, body >>

\* mutant: the rounds of a wait are not counted
PumpForever(token, then) ==
  IF token = "held" THEN UNCHANGED << waited, pc >> ELSE UNCHANGED waited /\ GoTo(then)

\* mutant: the last round of a wait counts as an answer
PumpHopeful(token, then) ==
  IF token = "held" /\ waited + 1 < TokenPolls
  THEN waited' = waited + 1 /\ UNCHANGED pc
  ELSE UNCHANGED waited /\ GoTo(then)

\* One round of the wait for a token: go on if it is signalled, else stall.
Pump(token, then) ==
  IF token # "held" THEN UNCHANGED waited /\ GoTo(then)
  ELSE /\ waited' = waited + 1
       /\ IF waited + 1 < TokenPolls THEN UNCHANGED pc ELSE GoTo("abort")

AwaitRequest ==
  /\ pc = "requested"
  /\ Pump(request, IF request = "failed" THEN "abort" ELSE "respond")
  /\ UNCHANGED << url, gets, answer, driver >>

SubmitResponse ==
  /\ pc = "respond"
  /\ page' = Blank
  /\ \/ GoTo("awaited") /\ response' = "held" /\ waited' = 0
     \/ GoTo("abort") /\ UNCHANGED << response, waited >>
  /\ UNCHANGED << url, gets, answer, children, request, body >>

\* The status of the response's token is not looked at.
AwaitResponse ==
  /\ pc = "awaited"
  /\ Pump(response, "read")
  /\ UNCHANGED << url, gets, answer, driver >>

\* mutant: a redirect is followed with no look at how many may still be
FollowOn ==
  /\ pc = "read"
  /\ IF page.code \in Redirect /\ page.location # Nothing
     THEN url' = page.location /\ gets' = gets - 1 /\ UNCHANGED answer /\ GoTo("request")
     ELSE /\ answer' = [ok |-> TRUE, url |-> url, code |-> page.code]
          /\ GoTo("close") /\ UNCHANGED << url, gets >>
  /\ UNCHANGED << waited, driver >>

\* A redirect that says where to is followed, any other answer returned.
ReadResponse ==
  /\ pc = "read"
  /\ IF page.code \in Redirect /\ page.location # Nothing
     THEN /\ url' = page.location /\ gets' = gets - 1 /\ UNCHANGED answer
          /\ GoTo(IF gets > 1 THEN "request" ELSE "abort")
     ELSE /\ answer' = [ok |-> TRUE, url |-> url, code |-> page.code]
          /\ GoTo("close") /\ UNCHANGED << url, gets >>
  /\ UNCHANGED << waited, driver >>

\* mutant: a fetch that gives up leaves the child as it is
CloseAnswered ==
  /\ pc \in {"close", "abort"} /\ GoTo("idle")
  /\ IF pc = "close" THEN children' = children - 1 /\ request' = "none" /\ response' = "none"
     ELSE UNCHANGED << children, request, response >>
  /\ UNCHANGED << url, gets, waited, answer, page, body >>

\* Destroying the child takes back the tokens the driver still holds.
Close ==
  /\ pc \in {"close", "abort"} /\ GoTo("idle")
  /\ children' = children - 1
  /\ request' = "none" /\ response' = "none"
  /\ UNCHANGED << url, gets, waited, answer, page, body >>

Core == \/ Lookup \/ EnsureDhcp \/ CreateChild \/ Configure \/ Submit \/ AwaitRequest
        \/ SubmitResponse \/ AwaitResponse \/ ReadResponse \/ Close

---------------------------------------------------------------------------
(* The driver, behind the core's back.                                     *)

CompleteRequest ==
  /\ request = "held" /\ request' \in {"done", "failed"}
  /\ UNCHANGED << core, children, response, page, body >>

\* A response that fails may have written its status first.
CompleteResponse ==
  /\ response = "held"
  /\ \/ /\ response' = "done" /\ body' = url
        /\ page' \in [code : Code, location : Url \cup {Nothing}]
     \/ /\ response' = "failed" /\ UNCHANGED body
        /\ page' \in [code : Code \cup {Unset}, location : {Nothing}]
  /\ UNCHANGED << core, children, request >>

Next == (\E u \in Url : Fetch(u)) \/ Core \/ CompleteRequest \/ CompleteResponse

\* The core goes on whatever the driver does.
Spec == Init /\ [][Next]_vars /\ WF_vars(Core)

---------------------------------------------------------------------------
(* Properties.                                                             *)

TypeOK ==
  /\ pc \in {"idle", "lookup", "lease", "create", "configure", "request", "requested",
             "respond", "awaited", "read", "close", "abort"}
  /\ url \in Url /\ gets \in 0..Gets
  /\ waited \in Nat /\ children \in Nat
  /\ request \in Token /\ response \in Token
  /\ page \in Page
  /\ body \in Url \cup {Nothing}
  /\ answer \in Answer

\* "close() is mandatory": however a fetch ends, the child it opened is closed,
\* and no two are ever open.
ChildrenClosed ==
  /\ children <= 1
  /\ pc \in {"idle", "lookup", "lease", "create"} => children = 0

\* What the driver may still write to is gone once a fetch has returned: no
\* token is with it then, however late it is, and none when the next one starts.
NoLateWrite ==
  pc \in {"idle", "lookup", "lease", "create", "configure"} =>
    "held" \notin {request, response}

\* A page returned is the page of the address it is returned under, never one
\* that was redirected away from, nor a redirect that said where to -- unless
\* the driver failed the response, which do_get does not notice.
PageIsGenuine ==
  pc = "close" /\ response # "failed" =>
    /\ body = url /\ answer.url = url /\ answer.code \in Code
    /\ answer.code \in Redirect => page.location = Nothing

\* Every fetch comes back, whatever the network and the driver do not do.
FetchEnds == pc # "idle" ~> pc = "idle"
===============================================================================
