----------------------------- MODULE FetchProofs ------------------------------
(***************************************************************************)
(* Theorems about module Fetch, for every set of addresses and codes and   *)
(* every bound on requests and waits, however often the driver fails.      *)
(***************************************************************************)
EXTENDS Fetch, TLAPS

\* One child is open, from its creation to its end, and none at other times.
OneChild == children = IF pc \in {"idle", "lookup", "lease", "create"} THEN 0 ELSE 1

\* The driver holds a token only while the core waits for it, or has just given
\* up waiting.
Awaited ==
  /\ request = "held" => pc \in {"requested", "abort"}
  /\ response = "held" => pc \in {"awaited", "abort"}

\* Requests are left as long as one is under way.
UnderWay == pc \notin {"idle", "close", "abort"} => gets > 0

\* What a response delivered is there until the fetch is over.
Delivered ==
  /\ pc \in {"awaited", "read", "close"} => response # "none"
  /\ response = "done" /\ pc \in {"awaited", "read", "close"} =>
       body = url /\ page.code \in Code
  /\ pc = "close" =>
       /\ answer.url = url /\ answer.code = page.code
       /\ page.code \in Redirect => page.location = Nothing

\* The inductive invariant.
IInv == TypeOK /\ OneChild /\ Awaited /\ UnderWay /\ Delivered

(***************************************************************************)
(* The bounds on requests and waits are positive numbers.                  *)
(***************************************************************************)
LEMMA Bounds == Gets \in Nat /\ Gets > 0 /\ TokenPolls \in Nat /\ LeasePolls \in Nat
  BY FetchAssumption

(***************************************************************************)
(* A blank page is a page, an error an answer.                             *)
(***************************************************************************)
LEMMA BlankTypes == Blank \in Page /\ Err \in Answer
  BY DEF Blank, Page, Err, Answer

(***************************************************************************)
(* A fetch that has not begun satisfies the inductive invariant.           *)
(***************************************************************************)
LEMMA InitIInv == Init => IInv
  BY BlankTypes, Bounds DEF Init, IInv, TypeOK, OneChild, Awaited, UnderWay, Delivered, Token

(***************************************************************************)
(* Every step of the core and of the driver preserves the type invariant.  *)
(***************************************************************************)
LEMMA NextTypeOK == TypeOK /\ OneChild /\ UnderWay /\ [Next]_vars => TypeOK'
<1> SUFFICES ASSUME TypeOK, OneChild, UnderWay, Next \/ UNCHANGED vars PROVE TypeOK'
  OBVIOUS
<1> USE BlankTypes, Bounds DEF TypeOK, OneChild, UnderWay, GoTo, Fail, Token
<1>1. ASSUME NEW u \in Url, Fetch(u) PROVE TypeOK'
  BY <1>1 DEF Fetch
<1>2. CASE Lookup
  BY <1>2 DEF Lookup, driver
<1>3. CASE EnsureDhcp
  BY <1>3 DEF EnsureDhcp, driver
<1>4. CASE CreateChild
  BY <1>4 DEF CreateChild
<1>5. CASE Configure
  BY <1>5 DEF Configure
<1>6. CASE Submit
  BY <1>6 DEF Submit
<1>7. CASE AwaitRequest
  BY <1>7 DEF AwaitRequest, Pump, driver
<1>8. CASE SubmitResponse
  BY <1>8 DEF SubmitResponse
<1>9. CASE AwaitResponse
  BY <1>9 DEF AwaitResponse, Pump, driver
<1>10. CASE ReadResponse
  <2>1. CASE page.code \in Redirect /\ page.location # Nothing
    BY <1>10, <2>1 DEF ReadResponse, driver, Page
  <2>2. CASE ~(page.code \in Redirect /\ page.location # Nothing)
    <3>1. [ok |-> TRUE, url |-> url, code |-> page.code] \in Answer
      BY DEF Page, Answer
    <3> QED BY <1>10, <2>2, <3>1 DEF ReadResponse, driver
  <2> QED BY <2>1, <2>2
<1>11. CASE Close
  BY <1>11 DEF Close
<1>12. CASE CompleteRequest
  BY <1>12 DEF CompleteRequest, core
<1>13. CASE CompleteResponse
  BY <1>13 DEF CompleteResponse, core, Page
<1>14. CASE UNCHANGED vars
  BY <1>14 DEF vars, core, driver
<1> QED BY <1>1, <1>2, <1>3, <1>4, <1>5, <1>6, <1>7, <1>8, <1>9, <1>10, <1>11, <1>12,
           <1>13, <1>14 DEF Next, Core

(***************************************************************************)
(* Every step preserves what is known of the child, the tokens, the        *)
(* requests left and the page.                                             *)
(***************************************************************************)
LEMMA NextRest == IInv /\ [Next]_vars => OneChild' /\ Awaited' /\ UnderWay' /\ Delivered'
<1> DEFINE Rest == OneChild /\ Awaited /\ UnderWay /\ Delivered
<1> SUFFICES ASSUME IInv, [Next]_vars PROVE Rest'
  OBVIOUS
<1> USE Bounds DEF IInv, TypeOK, OneChild, Awaited, UnderWay, Delivered, GoTo, Fail,
        Token, Err
<1>1. ASSUME NEW u \in Url, Fetch(u) PROVE Rest'
  BY <1>1 DEF Fetch
<1>2. CASE Lookup
  BY <1>2 DEF Lookup, driver
<1>3. CASE EnsureDhcp
  BY <1>3 DEF EnsureDhcp, driver
<1>4. CASE CreateChild
  BY <1>4 DEF CreateChild
<1>5. CASE Configure
  BY <1>5 DEF Configure
<1>6. CASE Submit
  BY <1>6 DEF Submit
<1>7. CASE AwaitRequest
  BY <1>7 DEF AwaitRequest, Pump, driver
<1>8. CASE SubmitResponse
  BY <1>8 DEF SubmitResponse
<1>9. CASE AwaitResponse
  BY <1>9 DEF AwaitResponse, Pump, driver
<1>10. CASE ReadResponse
  <2>1. CASE page.code \in Redirect /\ page.location # Nothing
    BY <1>10, <2>1 DEF ReadResponse, driver
  <2>2. CASE ~(page.code \in Redirect /\ page.location # Nothing)
    BY <1>10, <2>2 DEF ReadResponse, driver
  <2> QED BY <2>1, <2>2
<1>11. CASE Close
  BY <1>11 DEF Close
<1>12. CASE CompleteRequest
  BY <1>12 DEF CompleteRequest, core
<1>13. CASE CompleteResponse
  BY <1>13 DEF CompleteResponse, core
<1>14. CASE UNCHANGED vars
  BY <1>14 DEF vars, core, driver
<1> QED BY <1>1, <1>2, <1>3, <1>4, <1>5, <1>6, <1>7, <1>8, <1>9, <1>10, <1>11, <1>12,
           <1>13, <1>14 DEF Next, Core

(***************************************************************************)
(* The inductive invariant holds throughout.                               *)
(***************************************************************************)
LEMMA Invariance == Spec => []IInv
<1>1. IInv /\ [Next]_vars => IInv'
  BY NextTypeOK, NextRest DEF IInv
<1> QED BY InitIInv, <1>1, PTL DEF Spec

\* Type correctness of the network organ.
THEOREM TypeCorrect == Spec => []TypeOK
<1>1. IInv => TypeOK
  BY DEF IInv
<1> QED BY Invariance, <1>1, PTL

\* However a fetch ends, on every path of net.rs, the child it opened is closed.
THEOREM ChildAlwaysClosed == Spec => []ChildrenClosed
<1>1. IInv => ChildrenClosed
  BY DEF IInv, OneChild, ChildrenClosed
<1> QED BY Invariance, <1>1, PTL

\* No token is still with the driver when a fetch has returned.
THEOREM NeverWrittenLate == Spec => []NoLateWrite
<1>1. IInv => NoLateWrite
  BY DEF IInv, Awaited, NoLateWrite
<1> QED BY Invariance, <1>1, PTL

\* A page is returned under its own address, if the driver did not fail it.
THEOREM PageAlwaysGenuine == Spec => []PageIsGenuine
<1>1. IInv => PageIsGenuine
  BY DEF IInv, TypeOK, Token, Awaited, Delivered, PageIsGenuine
<1> QED BY Invariance, <1>1, PTL
===============================================================================
