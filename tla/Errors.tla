------------------------------- MODULE Errors ------------------------------
(***************************************************************************)
(* Errors with a code, a reason and a message, and their way from one      *)
(* process to another: New registers an error under the three and refuses  *)
(* a second one of the same three, GRPCStatus turns it into a gRPC status  *)
(* with the reason as a detail, FromError turns any error into one of      *)
(* these.  Each process has a registry of its own, and its calls come one  *)
(* after the other.                                                        *)
(*                                                                         *)
(* pkg/errors and pkg/errors/errors hold this code twice, and differ: in   *)
(* pkg/errors GRPCStatus and Reason are commented out, so that gRPC knows  *)
(* no status of its errors, and BadRequest makes a JyError, which has no   *)
(* code.  A process uses one of the two; one that uses both counts twice.  *)
(*                                                                         *)
(* A message is the sequence of its parts.                                 *)
(***************************************************************************)
EXTENDS Integers, Sequences, FiniteSets

CONSTANTS
    Processes,
    Outer,                  \* the processes that use pkg/errors
    Reasons, NoReason,      \* NoReason, the empty one, is in Reasons too
    Messages,               \* in the application's language, and in English
    Metadata, NoMetadata,   \* NoMetadata is in Metadata too
    HttpCodes,              \* what callers pass as a code
    GrpcCodes,              \* the codes of statuses other programs send
    MaxHeld                 \* bound: the errors all processes come to hold

VARIABLES
    codes,      \* _codes of each process: the keys it has registered
    errorsHeld, \* the errors each process holds
    carried,    \* what was sent over gRPC, what was made of it, and whether that returned
    answer      \* how the last call ended

errorVars == <<codes, errorsHeld, carried, answer>>

UnknownCode == 500

----------------------------------------------------------------------------
\* Between HTTP's codes and gRPC's.

GRPCCodeFromStatus(code) ==
    CASE code = 200 -> "OK"                 [] code = 400 -> "InvalidArgument"
      [] code = 401 -> "Unauthenticated"    [] code = 403 -> "PermissionDenied"
      [] code = 404 -> "NotFound"           [] code = 409 -> "Aborted"
      [] code = 429 -> "ResourceExhausted"  [] code = 500 -> "Internal"
      [] code = 501 -> "Unimplemented"      [] code = 503 -> "Unavailable"
      [] code = 504 -> "DeadlineExceeded"   [] code = 499 -> "Canceled"
      [] OTHER -> "Unknown"

\* A plausible bug, for the mutants: 409 is sent as Aborted, which is not sent back.
StatusFromAlreadyExists(grpc) ==
    CASE grpc = "OK" -> 200                 [] grpc = "AlreadyExists" -> 409
      [] grpc = "InvalidArgument" -> 400    [] OTHER -> 500
StatusFromGRPCCode(grpc) ==
    CASE grpc = "OK" -> 200                 [] grpc = "Canceled" -> 499
      [] grpc = "DeadlineExceeded" -> 504   [] grpc = "NotFound" -> 404
      [] grpc = "PermissionDenied" -> 403   [] grpc = "Unauthenticated" -> 401
      [] grpc = "ResourceExhausted" -> 429  [] grpc = "Unimplemented" -> 501
      [] grpc = "Unavailable" -> 503
      [] grpc \in {"InvalidArgument", "FailedPrecondition", "OutOfRange"} -> 400
      [] grpc \in {"AlreadyExists", "Aborted"} -> 409
      [] OTHER -> 500

----------------------------------------------------------------------------
\* Errors, statuses, and what is read of them.

Error(code, reason, message, metadata) ==
    [code |-> code, reason |-> reason, message |-> message, metadata |-> metadata]
WithMetadata(e, metadata) == [e EXCEPT !.metadata = metadata]
Code(errors) == IF errors = {} THEN 200 ELSE (CHOOSE e \in errors : TRUE).code
Reason(e) == e.reason
Is(e, target) == e.reason = target.reason

\* The codes the Is... questions ask for.
BadRequest == 400
Unauthorized == 401
Forbidden == 403
NotFound == 404
Conflict == 409
ClientClosed == 499
InternalServer == 500
ServiceUnavailable == 503
GatewayTimeout == 504

\* err.Error().
Printed(e) == <<"error", e.code, e.reason>> \o e.message \o <<e.metadata>>

\* A status holds at most one detail here, the reason and the metadata.
GRPCStatus(e) ==
    [grpc |-> GRPCCodeFromStatus(e.code), message |-> e.message,
     details |-> {<<e.reason, e.metadata>>}]

\* gRPC finds no status in an error of pkg/errors, nor in one of code 200: a
\* status of OK takes no detail, and GRPCStatus returns nil for it.
HasStatus(p, e) == p \notin Outer /\ GRPCCodeFromStatus(e.code) # "OK"

\* What gRPC sends for p's error: its status, or Unknown and the error in print.
WireStatus(p, e) ==
    IF HasStatus(p, e) THEN GRPCStatus(e)
    ELSE [grpc |-> "Unknown", message |-> Printed(e), details |-> {}]

\* The error FromError makes for a status, none for a status of OK.
ForStatus(s) ==
    IF s.grpc = "OK" THEN {}
    ELSE IF s.details = {}
    THEN {Error(UnknownCode, NoReason, <<"rpc error", s.grpc>> \o s.message, NoMetadata)}
    ELSE {Error(StatusFromGRPCCode(s.grpc), d[1], s.message, d[2]) : d \in s.details}

\* ToError: a JyError becomes a plain error in the language asked for.
JyError(reason, cn, en) == [reason |-> reason, cn |-> cn, en |-> en]
ToError(j, language) == IF language = "en" THEN j.en ELSE j.cn
ForPlain(message) == Error(UnknownCode, NoReason, message, NoMetadata)

----------------------------------------------------------------------------
\* What New does.  (Its key joins the three by "_": reasons and messages that
\* hold one may collide as well.)

Key(e) == [code |-> e.code, reason |-> e.reason, message |-> e.message]
KeysOf(errors) == {Key(e) : e \in {x \in errors : x.reason # NoReason}}

Make(p, errors) ==
    IF KeysOf(errors) \cap codes[p] # {}
    THEN answer' = "panicked" /\ UNCHANGED <<codes, errorsHeld>>
    ELSE /\ answer' = "returned"
         /\ codes' = [codes EXCEPT ![p] = @ \cup KeysOf(errors)]
         /\ errorsHeld' = [errorsHeld EXCEPT ![p] = @ \cup errors]

Total == UNION {{<<p, e>> : e \in errorsHeld[p]} : p \in Processes}
HasRoom == Cardinality(Total) < MaxHeld

----------------------------------------------------------------------------

ErrorInit ==
    /\ codes = [p \in Processes |-> {}]
    /\ errorsHeld = [p \in Processes |-> {}]
    /\ carried = {} /\ answer = "returned"

\* Newf, Errorf and the constructors, the metadata put on a clone.
Newf(p, code, reason, message, metadata) ==
    /\ HasRoom
    /\ Make(p, {WithMetadata(Error(code, reason, message, NoMetadata), metadata)})
    /\ UNCHANGED carried

\* A handler of p returns an error and gRPC takes it to q; q's FromError makes an
\* error of it, or panics.
Transmit(p, q, e) ==
    LET got == ForStatus(WireStatus(p, e))
    IN  /\ e \in errorsHeld[p] /\ HasRoom
        /\ Make(q, got)
        /\ carried' = carried \cup
                {[from |-> p, to |-> q, sent |-> e, got |-> got, ended |-> answer']}

\* A status of another program, with or without a reason.
FromError(p, grpc, message, details) ==
    /\ HasRoom
    /\ Make(p, ForStatus([grpc |-> grpc, message |-> message, details |-> details]))
    /\ UNCHANGED carried

\* Any other error, one made by BadRequest and ToError among them.
FromPlain(p, reason, language) ==
    /\ HasRoom
    /\ \E cn, en \in Messages : Make(p, {ForPlain(ToError(JyError(reason, cn, en), language))})
    /\ UNCHANGED carried

ErrorNext ==
    \/ \E p \in Processes, code \in HttpCodes, r \in Reasons, m \in Messages, md \in Metadata :
          Newf(p, code, r, m, md)
    \/ \E p, q \in Processes : \E e \in errorsHeld[p] : Transmit(p, q, e)
    \/ \E p \in Processes, grpc \in GrpcCodes, m \in Messages :
          \E details \in {{}} \cup {{<<r, NoMetadata>>} : r \in Reasons} :
             FromError(p, grpc, m, IF grpc = "OK" THEN {} ELSE details)
    \/ \E p \in Processes, r \in Reasons, language \in {"zh", "en"} : FromPlain(p, r, language)

ErrorSpec == ErrorInit /\ [][ErrorNext]_errorVars

\* The codes a process documents, those it has registered.
GenErrCodeDoc(p) == codes[p]

----------------------------------------------------------------------------
AskedFor == {BadRequest, Unauthorized, Forbidden, NotFound, Conflict, InternalServer,
          ClientClosed, ServiceUnavailable, GatewayTimeout}

\* What is made of an error of pkg/errors/errors, which is not of code 200: the same
\* reason, message and metadata, and the same code if a question of this package asks
\* for it (other codes arrive as 500).
Whole(sent, e) ==
    /\ Is(e, sent) /\ Is(sent, e) /\ Reason(e) = sent.reason
    /\ e.message = sent.message /\ e.metadata = sent.metadata
    /\ sent.code \in AskedFor => Code({e}) = sent.code

\* ... and of any other error: the reason, the metadata and the code are lost.
Anonymous(e) == Code({e}) = InternalServer /\ Reason(e) = NoReason /\ e.metadata = NoMetadata

SameKey(b, c) ==
    \E d \in b.got, e \in c.got : Reason(d) # NoReason /\ Key(d) = Key(e)

\* Every error sent over gRPC arrives as an error: whole or anonymous, as the package
\* that made it and its code decide.  The receiver panics only over an error that it
\* holds already with that code, reason and message; one of a reason that it does not
\* hold arrives, and of two with the same three only the first.  A process documents
\* what it holds, and nothing else (errors.go New, FromError, gen.go).
ErrorsSurviveTheWire ==
    /\ \A c \in carried :
        /\ c.got # {}
        /\ \A e \in c.got : IF c.from \in Outer \/ c.sent.code = 200
                            THEN Anonymous(e) ELSE Whole(c.sent, e)
        /\ c.ended = "panicked" =>
                \E e \in c.got, h \in errorsHeld[c.to] : e.reason # NoReason /\ Key(h) = Key(e)
    /\ \A b, c \in carried :
        b.to = c.to /\ b.ended = "returned" /\ c.ended = "returned" /\ SameKey(b, c) => b = c
    /\ \A p \in Processes : GenErrCodeDoc(p) = KeysOf(errorsHeld[p])

\* New, and what calls it, returns an error object (errors_test.go makes the
\* same error twice, and converts an error in the process that made it).
NewReturns == answer = "returned"
============================================================================
