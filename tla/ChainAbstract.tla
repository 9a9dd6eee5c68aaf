---------------------------- MODULE ChainAbstract ----------------------------
(***************************************************************************)
(* What Router.HandleRequest and Ctx.Next promise a request, with the      *)
(* recursion of Next left out: the handlers of the chain start one after   *)
(* the other in chain order; Ctx.Abort or a handler's error stops the      *)
(* chain; a wrapping handler may turn the end of the chain into an error   *)
(* (a failing session commit); the request ends once the chain has run    *)
(* out or stopped, with the status of the first error created, and it     *)
(* does end.                                                               *)
(***************************************************************************)
EXTENDS Integers, Sequences

CONSTANTS Chains    \* the chains of handler shapes find may return

VARIABLES
    handlers,   \* the chain
    ran,        \* handler indices (from 0) in the order they started
    stopped,    \* Abort or an error has ended the chain
    err,        \* the first error created: "nil", "err" or "httpErr"
    done,       \* the request has been served
    status      \* the response status

avars == <<handlers, ran, stopped, err, done, status>>

\* shapes that end the chain when they run, and the error each creates
Stoppers == {"Abort", "Fail", "FailHTTP"}
ErrOf(s) == CASE s = "Fail" -> "err" [] s = "FailHTTP" -> "httpErr" [] OTHER -> "nil"

StatusOf(e) == CASE e = "nil" -> 200 [] e = "httpErr" -> 404 [] e = "err" -> 500

Init ==
    /\ handlers \in Chains
    /\ ran = << >> /\ stopped = FALSE /\ err = "nil"
    /\ done = FALSE /\ status = 200

\* the next handler of the chain starts
Start ==
    /\ ~done /\ ~stopped /\ Len(ran) < Len(handlers)
    /\ LET s == handlers[Len(ran) + 1] IN
        /\ ran' = Append(ran, Len(ran))
        /\ stopped' = (s \in Stoppers)
        /\ err' = IF err = "nil" THEN ErrOf(s) ELSE err
    /\ UNCHANGED <<handlers, done, status>>

\* a started wrapping handler that commits after Next turns a clean end
\* into an error
Raise ==
    /\ ~done /\ err = "nil"
    /\ \E k \in 1..Len(ran) : handlers[ran[k] + 1] = "WrapFail"
    /\ stopped' = TRUE /\ err' = "err"
    /\ UNCHANGED <<handlers, ran, done, status>>

\* the chain has run out or stopped: the response is written
Finish ==
    /\ ~done /\ (stopped \/ Len(ran) = Len(handlers))
    /\ done' = TRUE /\ status' = StatusOf(err)
    /\ UNCHANGED <<handlers, ran, stopped, err>>

Next == Start \/ Raise \/ Finish

\* one goroutine serves the request and every handler returns
Spec == Init /\ [][Next]_avars /\ WF_avars(Next)

=============================================================================
