---------------------------- MODULE HandlerChain ----------------------------
(***************************************************************************)
(* One request through Router.HandleRequest: the handler chain run by      *)
(* Ctx.Next (context.go) and the error path of Router.handleError.         *)
(*                                                                         *)
(* The chain is a sequence of handler shapes, each the shape of a handler  *)
(* of this repository:                                                     *)
(*   "Pass"     returns nil without calling Next (cors preflight)          *)
(*   "Wrap"     returns c.Next()'s error after post-processing (compress,  *)
(*              cors, csrf, xff, session with a good commit)               *)
(*   "WrapFail" calls c.Next() and returns its error, or the commit error  *)
(*              when Next returned nil (session with a failing commit)     *)
(*   "Fail"     returns a plain error without Next (csrf mismatchError)    *)
(*   "FailHTTP" returns an HTTPError (NotFoundHandler)                     *)
(*   "Abort"    calls c.Abort() and returns nil (MethodNotAllowedHandler   *)
(*              when another method matches)                               *)
(* Go's Next is recursive: a handler that calls Next waits on the stack    *)
(* until the nested loop returns.  "stack" holds the handler indices whose *)
(* body is running, innermost last; "mode" is where control is:           *)
(*   "next"    entering Ctx.Next (c.index++)                               *)
(*   "loop"    at the loop test index < len(handlers)                      *)
(*   "body"    in the body of the innermost handler                        *)
(*   "ret"     a handler returned "val" to the loop that called it         *)
(*   "nextRet" Next returned "val" to its caller                           *)
(*   "done"    HandleRequest has cleared the Ctx and put it in the pool.   *)
(* Handler indices are Go's, from 0; handlers[i + 1] is handler i.         *)
(***************************************************************************)
EXTENDS Integers, Sequences

CONSTANTS
    MaxLen,     \* longest chain
    Shapes      \* handler shapes the chains are made of

AllShapes == {"Pass", "Wrap", "WrapFail", "Fail", "FailHTTP", "Abort"}

ASSUME MaxLen \in Nat \ {0} /\ Shapes \subseteq AllShapes

\* error values: nil, a plain error, an HTTPError
Vals == {"nil", "err", "httpErr"}

VARIABLES
    handlers,   \* c.handlers: the chain find returned
    index,      \* c.index
    stack,      \* indices of the handlers whose body is running
    mode,       \* where control is (see above)
    val,        \* the error value being returned
    status,     \* the response status code
    ran,        \* ghost: handler indices in the order their bodies started
    raised      \* ghost: some handler created an error

vars == <<handlers, index, stack, mode, val, status, ran, raised>>

Chains == UNION {[1..n -> Shapes] : n \in 1..MaxLen}

Top == stack[Len(stack)]
Pop == stack' = SubSeq(stack, 1, Len(stack) - 1)
ShapeOf(i) == handlers[i + 1]

\* HandleRequest: c.init(ctx) sets index = -1, find gives the chain, and
\* the first c.Next() is entered.
Init ==
    /\ handlers \in Chains
    /\ index = -1
    /\ stack = << >>
    /\ mode = "next"
    /\ val = "nil"
    /\ status = 200
    /\ ran = << >>
    /\ raised = FALSE

-----------------------------------------------------------------------------
(* Ctx.Next                                                                *)

\* Variant of Next that forgets c.index++ on entry.
EnterNextNoIncrement ==
    /\ mode = "next"
    /\ mode' = "loop"
    /\ UNCHANGED <<handlers, index, stack, val, status, ran, raised>>

\* c.index++ on entry to Next
EnterNext ==
    /\ mode = "next"
    /\ index' = index + 1
    /\ mode' = "loop"
    /\ UNCHANGED <<handlers, stack, val, status, ran, raised>>

\* the loop calls handlers[c.index](c)
CallHandler ==
    /\ mode = "loop" /\ index < Len(handlers)
    /\ stack' = Append(stack, index)
    /\ ran' = Append(ran, index)
    /\ mode' = "body"
    /\ UNCHANGED <<handlers, index, val, status, raised>>

\* the loop test fails: Next returns nil
LoopEnd ==
    /\ mode = "loop" /\ index >= Len(handlers)
    /\ mode' = "nextRet"
    /\ val' = "nil"
    /\ UNCHANGED <<handlers, index, stack, status, ran, raised>>

\* Variant of the loop that goes on past a handler's error.
ReturnErrorContinue ==
    /\ mode = "ret" /\ val # "nil"
    /\ index' = index + 1
    /\ mode' = "loop"
    /\ UNCHANGED <<handlers, stack, val, status, ran, raised>>

\* a handler returned an error: Next returns it at once
ReturnError ==
    /\ mode = "ret" /\ val # "nil"
    /\ mode' = "nextRet"
    /\ UNCHANGED <<handlers, index, stack, val, status, ran, raised>>

\* a handler returned nil: c.index++ and the loop goes on
Continue ==
    /\ mode = "ret" /\ val = "nil"
    /\ index' = index + 1
    /\ mode' = "loop"
    /\ UNCHANGED <<handlers, stack, val, status, ran, raised>>

\* Variant of Ctx.Abort that leaves c.index where it is.
AbortKeepsIndex == index

\* Ctx.Abort
AbortIndex == Len(handlers)

-----------------------------------------------------------------------------
(* Handler bodies                                                          *)

\* a handler body ends and returns v to the loop that called it
Return(v) ==
    /\ Pop
    /\ mode' = "ret"
    /\ val' = v

\* cors preflight: the response is written and the handler returns nil
PassBody ==
    /\ mode = "body" /\ ShapeOf(Top) = "Pass"
    /\ Return("nil")
    /\ UNCHANGED <<handlers, index, status, ran, raised>>

\* csrf mismatch and NotFoundHandler: return an error without Next
FailBody ==
    /\ mode = "body" /\ ShapeOf(Top) \in {"Fail", "FailHTTP"}
    /\ Return(IF ShapeOf(Top) = "Fail" THEN "err" ELSE "httpErr")
    /\ raised' = TRUE
    /\ UNCHANGED <<handlers, index, status, ran>>

\* MethodNotAllowedHandler with an allowed method: c.Abort(), return nil
AbortBody ==
    /\ mode = "body" /\ ShapeOf(Top) = "Abort"
    /\ index' = AbortIndex
    /\ Return("nil")
    /\ UNCHANGED <<handlers, status, ran, raised>>

\* compress, cors, csrf, session: the body calls c.Next()
CallNext ==
    /\ mode = "body" /\ ShapeOf(Top) \in {"Wrap", "WrapFail"}
    /\ mode' = "next"
    /\ UNCHANGED <<handlers, index, stack, val, status, ran, raised>>

\* Variant of compress that returns nil whatever Next returned.
WrapReturnDropsError ==
    /\ mode = "nextRet" /\ stack # << >> /\ ShapeOf(Top) = "Wrap"
    /\ Return("nil")
    /\ UNCHANGED <<handlers, index, status, ran, raised>>

\* compress: if err := c.Next(); err != nil { return err }; compress; nil
WrapReturn ==
    /\ mode = "nextRet" /\ stack # << >> /\ ShapeOf(Top) = "Wrap"
    /\ Return(val)
    /\ UNCHANGED <<handlers, index, status, ran, raised>>

\* session: err = c.Next(); err2 = commit (failing); if err == nil { err = err2 }
WrapFailReturn ==
    /\ mode = "nextRet" /\ stack # << >> /\ ShapeOf(Top) = "WrapFail"
    /\ Return(IF val = "nil" THEN "err" ELSE val)
    /\ raised' = TRUE
    /\ UNCHANGED <<handlers, index, status, ran>>

-----------------------------------------------------------------------------
\* HandleRequest after the outer Next: handleError writes the HTTPError's
\* status or 500; then c.clear() and the Ctx goes back to the pool.
Finish ==
    /\ mode = "nextRet" /\ stack = << >>
    /\ status' = CASE val = "nil"     -> status
                   [] val = "httpErr" -> 404
                   [] val = "err"     -> 500
    /\ mode' = "done"
    /\ UNCHANGED <<handlers, index, stack, val, ran, raised>>

\* the request has been served
Served ==
    /\ mode = "done"
    /\ UNCHANGED vars

Next ==
    \/ EnterNext \/ CallHandler \/ LoopEnd \/ ReturnError \/ Continue
    \/ PassBody \/ FailBody \/ AbortBody \/ CallNext
    \/ WrapReturn \/ WrapFailReturn
    \/ Finish \/ Served

\* One goroutine runs the whole request, and every handler body of the
\* repository is straight-line code around its Next call, so the request
\* keeps taking steps until it is served.
Spec == Init /\ [][Next]_vars /\ WF_vars(Next)

-----------------------------------------------------------------------------
(* Properties                                                              *)

TypeOK ==
    /\ handlers \in Chains
    /\ index \in -1..2 * MaxLen
    /\ stack \in Seq(0..MaxLen - 1)
    /\ mode \in {"next", "loop", "body", "ret", "nextRet", "done"}
    /\ val \in Vals
    /\ status \in {200, 404, 500}
    /\ raised \in BOOLEAN

(* The abstract request of ChainAbstract, seen through the ghost history  *)
(* of started handlers: the chain has stopped once an aborting or failing *)
(* handler has started or a committing handler has raised; the first     *)
(* error is the one a failing handler creates, else the commit's.         *)
StoppedNow ==
    \/ \E k \in 1..Len(ran) : ShapeOf(ran[k]) \in {"Abort", "Fail", "FailHTTP"}
    \/ raised

FirstErr ==
    IF \E k \in 1..Len(ran) : ShapeOf(ran[k]) \in {"Fail", "FailHTTP"}
    THEN LET k == CHOOSE k \in 1..Len(ran) : ShapeOf(ran[k]) \in {"Fail", "FailHTTP"}
         IN IF ShapeOf(ran[k]) = "Fail" THEN "err" ELSE "httpErr"
    ELSE IF raised THEN "err" ELSE "nil"

Abs == INSTANCE ChainAbstract
    WITH stopped <- StoppedNow, err <- FirstErr, done <- (mode = "done")

\* Ctx.Next, Abort and handleError implement the abstract request: whatever
\* mix of wrapping, passing, failing and aborting handlers a chain has and
\* however deep the nested Next calls go, handlers start in chain order,
\* each at most once; none starts after an Abort or an error; the status is
\* that of the first error created on its way out through the wrapping
\* handlers; and every request is served.
ChainRefinesAbstract == Abs!Spec

=============================================================================
