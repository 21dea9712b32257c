---------------------------- MODULE RequestBody ----------------------------
(***************************************************************************)
(* The body of one request, read by resolutions in several contexts:       *)
(* request_body() of _body.py and the rebound requests of ctx.py.          *)
(*                                                                         *)
(* Every context has a _ReboundRequest of its own, which leaves the body,  *)
(* the form and the stream to the request it was made from, so that there  *)
(* is one of each.  The tasks run in the outermost context, or in one of   *)
(* their own inside of it (resolve(new_ctx=True), injection_ctx()), named  *)
(* like the task.  Starlette's Request is external.                        *)
(***************************************************************************)
EXTENDS Naturals, Sequences, FiniteSets, SequencesExt

CONSTANTS
    Tasks,      \* tasks that resolve in the request
    Messages,   \* how many http.request messages the client sends
    Outer,      \* the outermost context of the request
    App,        \* FastAPI's own exit stack, which outlives the contexts
    Requests,   \* kinds of request: "server" or "synthetic"
    Overlap,    \* may contexts of a server's request read at the same time?
    Again       \* may a context be made from the original request again?

ASSUME RequestBodyAssumption ==
    /\ Messages \in Nat \ {0}
    /\ {Outer, App} \cap Tasks = {} /\ Outer # App
    /\ Requests \subseteq {"server", "synthetic"}
    /\ {Overlap, Again} \subseteq BOOLEAN

VARIABLES
    kind,       \* does receive() wait for a client?
    shape,      \* what the route declares: a "body", a "form" or "none", and has read
    received,   \* messages handed out by the server
    consumed,   \* Request._stream_consumed
    body,       \* Request._body, the messages it was joined from; empty: not there
    form,       \* Request._form, an index of forms; 0: None
    forms,      \* every FormData made: what it was parsed from, how often it was closed
    stacks,     \* the form.close callbacks on the exit stacks
    task,       \* where each task is, and what it got
    lost,       \* messages in the hands of a read that was interrupted
    over        \* the request is over

stream == <<received, consumed, body, lost>>
vars == <<kind, shape, stream, form, forms, stacks, task, over>>

Whole == 1..Messages
Stacks == Tasks \cup {Outer, App}
Idle == [phase |-> "app", own |-> FALSE, again |-> FALSE, isForm |-> FALSE, parsed |-> FALSE,
         got |-> {}, value |-> {}, holds |-> 0, failed |-> FALSE]

\* FastAPI reads what the route declares before it calls anything of the route.
Init ==
    /\ kind \in Requests
    /\ shape \in IF kind = "server" THEN {"none", "body", "form"} ELSE {"none"}
    /\ received = IF shape = "none" THEN 0 ELSE Messages
    /\ consumed = (shape # "none")
    /\ body = IF shape = "body" THEN Whole ELSE {}
    /\ forms = IF shape = "form" THEN <<[parts |-> Whole, closes |-> 0]>> ELSE <<>>
    /\ form = Len(forms)
    /\ stacks = [s \in Stacks |-> IF s = App /\ shape = "form" THEN <<1>> ELSE <<>>]
    /\ task = [t \in Tasks |-> Idle]
    /\ lost = {}
    /\ over = FALSE

-----------------------------------------------------------------------------
\* Contexts

InApp(t) == task[t].phase = "app"
Waiting(t) == task[t].phase = "waiting"      \* for a message of the server
Parsing(t) == task[t].phase = "parsing"      \* a form: an upload is written to a file
Reading(t) == Waiting(t) \/ Parsing(t)
CtxOf(t) == IF task[t].own THEN t ELSE Outer

\* Bug: a context always registers with its own stack.
FormStackOwn(c) == c

\* scope["fastapi_middleware_astack"]: FastAPI's, if it is in the scope, else that of the
\* first context around whose request was made from the original.
FormStack(c) ==
    CASE kind = "server" -> App
      [] kind # "server" /\ c \in Tasks /\ task[c].again -> c
      [] OTHER -> Outer

\* injection_ctx() on the request of the context around, or on the original request.
OpenCtx(t, again) ==
    /\ InApp(t) /\ ~task[t].own
    /\ again => Again
    /\ task' = [task EXCEPT ![t] = [@ EXCEPT !.own = TRUE, !.again = again]]
    /\ UNCHANGED <<kind, shape, stream, form, forms, stacks, over>>

\* Where a call of f.close stands on these exit stacks.
CloseCalls(f, which) == UNION {{s} \X {i \in DOMAIN stacks[s] : stacks[s][i] = f} : s \in which}

\* The callbacks of an exit stack run.
Unwind(which) ==
    /\ forms' = [f \in DOMAIN forms |->
            [forms[f] EXCEPT !.closes = @ + Cardinality(CloseCalls(f, which))]]
    /\ stacks' = [s \in Stacks |-> IF s \in which THEN <<>> ELSE stacks[s]]

LeaveCtx(t) ==
    /\ InApp(t) /\ task[t].own
    /\ Unwind({t})
    /\ task' = [task EXCEPT ![t] = [@ EXCEPT !.own = FALSE, !.again = FALSE]]
    /\ UNCHANGED <<kind, shape, stream, form, over>>

Finish(t) ==
    /\ InApp(t) /\ ~task[t].own
    /\ task' = [task EXCEPT ![t] = [Idle EXCEPT !.phase = "done"]]
    /\ UNCHANGED <<kind, shape, stream, form, forms, stacks, over>>

\* The outermost context ends, then the request.
EndRequest ==
    /\ ~over
    /\ \A t \in Tasks : task[t].phase = "done"
    /\ Unwind({Outer, App})
    /\ over' = TRUE
    /\ UNCHANGED <<kind, shape, stream, form, task>>

-----------------------------------------------------------------------------
\* request_body()

\* Bug: the body is read before the lock is taken.
MayReadAnyway(t) == TRUE

\* `async with ctx.lock`, as far as it matters here: one reader per context.
MayRead(t) == \A u \in Tasks : Reading(u) => CtxOf(u) # CtxOf(t)

\* The condition under which the code is checked, see Overlap.
Alone(t) == Overlap \/ \A u \in Tasks : Reading(u) => CtxOf(u) = CtxOf(t)

\* _body_shape(): the route decides if it declares a body.
InShape(isForm) == shape # "none" => (isForm <=> shape = "form")

Asks(t, isForm) == InApp(t) /\ MayRead(t) /\ Alone(t) /\ InShape(isForm)

\* Bug: whoever reads the form registers its close.
RegistersAlways(parsed) == TRUE

\* _read_form(): who found the form not parsed before it was read registers its close.
Registers(parsed) == ~parsed

\* Bug: the rebound request keeps what it read for itself.
KeepAside(parts) == body' = body

\* _ReboundRequest.body(): the original request remembers it.
Keep(parts) == body' = parts

\* The read of t ends with a form, f.
HandForm(t, f, parts, parsed) ==
    /\ form' = f
    /\ stacks' = IF Registers(parsed)
                 THEN [stacks EXCEPT ![FormStack(CtxOf(t))] = Append(@, f)] ELSE stacks
    /\ task' = [task EXCEPT ![t] =
            [@ EXCEPT !.phase = "app", !.isForm = TRUE, !.value = parts,
                      !.holds = f, !.got = {}, !.failed = FALSE]]

\* The read of t ends, the stream has given it parts.
Hand(t, isForm, parsed, parts) ==
    IF isForm
    THEN /\ forms' = Append(forms, [parts |-> parts, closes |-> 0])
         /\ HandForm(t, Len(forms) + 1, parts, parsed)
         /\ UNCHANGED body
    ELSE /\ Keep(parts)
         /\ task' = [task EXCEPT ![t] =
                [@ EXCEPT !.phase = "app", !.isForm = FALSE, !.value = parts,
                          !.got = {}, !.failed = FALSE]]
         /\ UNCHANGED <<form, forms, stacks>>

\* The form was parsed before.
TakeForm(t) ==
    /\ Asks(t, TRUE)
    /\ form # 0
    /\ HandForm(t, form, forms[form].parts, TRUE)
    /\ UNCHANGED <<kind, shape, stream, forms, over>>

\* The body was read before.
TakeBody(t) ==
    /\ Asks(t, FALSE)
    /\ body # {}
    /\ Hand(t, FALSE, TRUE, body)
    /\ UNCHANGED <<kind, shape, received, consumed, lost, over>>

\* RuntimeError("Stream consumed").
StreamConsumed(t, isForm) ==
    /\ Asks(t, isForm)
    /\ consumed /\ body = {}
    /\ isForm => form = 0
    /\ task' = [task EXCEPT ![t] = [@ EXCEPT !.failed = TRUE, !.isForm = isForm]]
    /\ UNCHANGED <<kind, shape, stream, form, forms, stacks, over>>

\* A synthetic request answers with the whole body and does not wait.
ReadSynthetic(t) ==
    /\ Asks(t, FALSE)
    /\ kind = "synthetic" /\ ~consumed
    /\ consumed' = TRUE
    /\ Hand(t, FALSE, TRUE, Whole)
    /\ UNCHANGED <<kind, shape, received, lost, over>>

\* A form is parsed from the body that was read before, or from a synthetic one.
ParseAtOnce(t) ==
    /\ Asks(t, TRUE)
    /\ form = 0
    /\ body # {} \/ (kind = "synthetic" /\ ~consumed)
    /\ consumed' = TRUE
    /\ task' = [task EXCEPT ![t] =
            [@ EXCEPT !.phase = "parsing", !.isForm = TRUE, !.parsed = FALSE,
                      !.got = IF body # {} THEN body ELSE Whole]]
    /\ UNCHANGED <<kind, shape, received, body, lost, form, forms, stacks, over>>

\* Bug: the close of the form is registered before there is one.
StartReadingRegistered(t, isForm) ==
    /\ Asks(t, isForm)
    /\ kind = "server" /\ ~consumed
    /\ task' = [task EXCEPT ![t] =
            [@ EXCEPT !.phase = "waiting", !.isForm = isForm, !.parsed = TRUE]]
    /\ stacks' = IF isForm THEN [stacks EXCEPT ![FormStack(CtxOf(t))] = Append(@, Len(forms) + 1)]
                 ELSE stacks
    /\ UNCHANGED <<kind, shape, stream, form, forms, over>>

\* Nothing is there yet: whether the form was parsed is checked, then the read waits for
\* the server.
StartReading(t, isForm) ==
    /\ Asks(t, isForm)
    /\ kind = "server" /\ ~consumed
    /\ task' = [task EXCEPT ![t] =
            [@ EXCEPT !.phase = "waiting", !.isForm = isForm, !.parsed = (form # 0)]]
    /\ UNCHANGED <<kind, shape, stream, form, forms, stacks, over>>

\* One message more; the last one ends the stream, and the read of a body.
Receive(t) ==
    LET got == task[t].got \cup {received + 1}
    IN  /\ Waiting(t)
        /\ received < Messages
        /\ received' = received + 1
        /\ consumed' = (received' = Messages)
        /\ IF consumed' /\ ~task[t].isForm
           THEN Hand(t, FALSE, TRUE, got)
           ELSE /\ task' = [task EXCEPT ![t] =
                       [@ EXCEPT !.got = got,
                                 !.phase = IF consumed' THEN "parsing" ELSE "waiting"]]
                /\ UNCHANGED <<body, form, forms, stacks>>
        /\ UNCHANGED <<kind, shape, lost, over>>

\* The form is complete.
Parsed(t) ==
    /\ Parsing(t)
    /\ Hand(t, TRUE, task[t].parsed, task[t].got)
    /\ UNCHANGED <<kind, shape, received, consumed, lost, over>>

\* The reading task is cancelled, or the client is gone.
Interrupted(t) ==
    /\ Reading(t)
    /\ lost' = lost \cup (task[t].got \ body)
    /\ task' = [task EXCEPT ![t] = [@ EXCEPT !.phase = "app", !.got = {}]]
    /\ UNCHANGED <<kind, shape, received, consumed, body, form, forms, stacks, over>>

Next ==
    \/ \E t \in Tasks, again \in BOOLEAN : OpenCtx(t, again)
    \/ \E t \in Tasks : LeaveCtx(t) \/ Finish(t)
    \/ EndRequest
    \/ \E t \in Tasks : TakeForm(t) \/ TakeBody(t) \/ ReadSynthetic(t) \/ ParseAtOnce(t)
    \/ \E t \in Tasks, isForm \in BOOLEAN : StartReading(t, isForm) \/ StreamConsumed(t, isForm)
    \/ \E t \in Tasks : Receive(t) \/ Parsed(t) \/ Interrupted(t)

\* The client sends its body, and the parser ends.
Fairness == \A t \in Tasks : WF_vars(Receive(t) \/ Parsed(t))

Spec == Init /\ [][Next]_vars /\ Fairness

-----------------------------------------------------------------------------
\* Properties

TaskStates ==
    [phase : {"app", "waiting", "parsing", "done"}, own : BOOLEAN, again : BOOLEAN,
     isForm : BOOLEAN, parsed : BOOLEAN, got : SUBSET Whole, value : SUBSET Whole,
     holds : Nat, failed : BOOLEAN]

TypeOK ==
    /\ kind \in Requests
    /\ shape \in {"none", "body", "form"}
    /\ received \in 0..Messages
    /\ consumed \in BOOLEAN
    /\ body \subseteq Whole
    /\ lost \subseteq Whole
    /\ forms \in Seq([parts : SUBSET Whole, closes : Nat])
    /\ form \in 0..Len(forms)
    /\ stacks \in [Stacks -> Seq(1..Len(forms))]
    /\ task \in [Tasks -> TaskStates]
    /\ \A t \in Tasks : task[t].holds \in 0..Len(forms)
    /\ over \in BOOLEAN

\* Whatever context a body or a form is read in, every reader is handed the same: all
\* messages of the request but those that an interrupted read took with it.  No two reads
\* share out the messages, and no reader is handed a part of what another one has (README:
\* "it is read once per request, shared with the route and every context nested in it").
OnePiece == \A t \in Tasks : task[t].value # {} => task[t].value = Whole \ lost

\* A form that a task got in the request is open until the request ends, also when the
\* context that parsed it ends before.
FormStaysOpen == \A t \in Tasks : task[t].holds # 0 => forms[task[t].holds].closes = 0

\* A request has one form, closed exactly once: its close is on one stack or has run
\* (test_form_is_closed_once_per_request).
FormClosedOnce ==
    /\ Len(forms) <= 1
    /\ \A f \in DOMAIN forms : forms[f].closes + Cardinality(CloseCalls(f, Stacks)) = 1
    /\ over => \A f \in DOMAIN forms : forms[f].closes = 1

\* Only a body that is asked for after a form finds the stream consumed
\* (test_form_consumes_the_stream_as_in_a_route), unless a read was interrupted.
ConsumedOnlyByForm ==
    \A t \in Tasks : task[t].failed => (~task[t].isForm /\ form # 0) \/ lost # {}

\* Every read that waits for the server ends: nobody waits for a message that somebody
\* else has taken.
ReadEnds == \A t \in Tasks : Reading(t) ~> ~Reading(t)
=============================================================================
