---------------------------- MODULE HttpPayload -----------------------------
(***************************************************************************)
(* The bodies of logged HTTP requests and responses (payload_http.go):     *)
(* readBody takes up to a limit from the body, RestoreBody gives a request *)
(* what was read for whoever comes next, another logging middleware or the *)
(* handler, and Serialize (dump.go) puts what was read into the log, as    *)
(* far as the limits and rules of the dump let it.                         *)
(*                                                                         *)
(* A body is what can still be read from it: a prefix of what the peer     *)
(* sent, by its length, and whether reading then fails.                    *)
(***************************************************************************)
EXTENDS Integers, Sequences, FiniteSets, SequencesExt

CONSTANTS
    Lengths,        \* lengths of bodies sent
    Settings,       \* [fields, budget, depth, hidden] of a log call, see below
    HeaderFields,   \* how many fields of a dump the headers may take
    BytesPerField,  \* what a field stands for in bytes (256)
    DefaultLimit,   \* the limit when there is none (4096)
    MaxLogs         \* bound: how many middlewares log one message

\* The entries of a payload; a response has a status, a request the first two.
PayloadKeys == {"method", "url", "status", "headers", "body", "body_truncated"}

\* DumpMaxFields of the logger, by which the body is read; the field limit of
\* the dump, which an option may set apart from it; the depth limit; the
\* entries that a rule or a detected secret removes or masks.
ASSUME PayloadConstants ==
    /\ Lengths \subseteq Nat /\ HeaderFields \subseteq Nat
    /\ Settings \subseteq [fields : Int, budget : Int, depth : Int, hidden : SUBSET PayloadKeys]
    /\ BytesPerField \in Nat /\ DefaultLimit \in Nat \ {0}

Body == [length : Lengths, fails : BOOLEAN]
NoBody == [length |-> 0, fails |-> FALSE]

VARIABLES
    kind,       \* the message is a request or a response
    sent,       \* history: the body the peer sent
    body,       \* r.Body
    logs,       \* history: what each log call read and what its log shows
    received    \* what the handler or client then read, -1 before

payloadVars == <<kind, sent, body, logs, received>>

PayloadInit ==
    /\ kind \in {"request", "response"}
    /\ sent \in Body
    /\ body = sent
    /\ logs = <<>>
    /\ received = -1

-----------------------------------------------------------------------------

\* readBody(r.Body, cfg.DumpMaxFields*256)
limitOf(fieldLimit) ==
    IF fieldLimit * BytesPerField <= 0 THEN DefaultLimit ELSE fieldLimit * BytesPerField

\* Mutant: a body of exactly the limit counts as truncated.
readBodyAtLimit(limit) ==
    LET data == IF body.length < limit THEN body.length ELSE limit
    IN  IF body.fails /\ body.length <= limit
        THEN [data |-> 0, truncated |-> FALSE]
        ELSE [data |-> data, truncated |-> body.length >= limit]

\* io.ReadAll of at most limit+1 bytes.  A failure among them loses all of
\* them; one byte more than the limit means that the rest is cut.
readBody(limit) ==
    LET data == IF body.length < limit + 1 THEN body.length ELSE limit + 1
    IN  IF body.fails /\ body.length < limit + 1
        THEN [data |-> 0, truncated |-> FALSE]
        ELSE [data |-> IF data > limit THEN limit ELSE data, truncated |-> data > limit]

\* Mutant: the buffer is read for the log and then handed on empty.
RestoreBodyDrained(read) == NoBody

\* RestoreBody(r, body): a buffer, which never fails.
RestoreBody(read) == [length |-> read.data, fails |-> FALSE]

\* The entries of the payload.
payload(read) ==
    (IF kind = "request" THEN {"method", "url"} ELSE {"status"})
        \cup {"headers"}
        \cup (IF read.data > 0 THEN {"body"} ELSE {})
        \cup (IF read.truncated THEN {"body_truncated"} ELSE {})

\* Entries that are dumped as no more than a type, or as nothing.
Hides(s) == IF s.depth <= 1 THEN PayloadKeys ELSE s.hidden

\* The entries that mapValue gets to, in the order of a Go map, before the
\* fields run out: the payload takes one, each entry one, the headers h more.
Visited(s, keys, h) ==
    LET spent(v) == Cardinality(v)
                        + IF "headers" \in v \ Hides(s) THEN h ELSE 0
    IN  IF s.budget <= 0 THEN {keys}
        ELSE {v \in SUBSET keys : /\ Cardinality(v) <= s.budget - 1
                                  /\ v = keys \/ spent(v) >= s.budget - 1}

\* HTTPRequestWith and HTTPResponseWith; a response is left read and closed.
\* What is left out of the payload for want of fields is said by "...".
Log(s, h) ==
    LET limit == limitOf(s.fields)
        read == readBody(limit)
        keys == payload(read)
    IN  /\ received = -1
        /\ Len(logs) < MaxLogs
        /\ \E visited \in Visited(s, keys, h) :
              logs' = Append(logs, [limit |-> limit, data |-> read.data, hides |-> Hides(s),
                                    shown |-> visited \ Hides(s),
                                    more |-> s.depth > 0 /\ visited # keys])
        /\ body' = IF kind = "request" THEN RestoreBody(read) ELSE NoBody
        /\ UNCHANGED <<kind, sent, received>>

\* The handler after the middlewares reads the body to its end.
Receive ==
    /\ received = -1
    /\ received' = body.length
    /\ UNCHANGED <<kind, sent, body, logs>>

PayloadNext == Receive \/ \E s \in Settings, h \in HeaderFields : Log(s, h)

PayloadSpec == PayloadInit /\ [][PayloadNext]_payloadVars

-----------------------------------------------------------------------------

PayloadTypeOK ==
    /\ kind \in {"request", "response"}
    /\ sent \in Body
    /\ body.length \in 0 .. sent.length /\ body.fails \in {FALSE, sent.fails}
    /\ received \in -1 .. sent.length
    /\ \A i \in DOMAIN logs : logs[i].data \in 0 .. sent.length

Received == kind = "request" /\ received # -1 /\ ~sent.fails

(***************************************************************************)
(* A request whose body fits every limit it is logged under reaches the    *)
(* handler whole, however many middlewares log it (payload_http.go         *)
(* HTTPRequestWith).  What becomes of a longer one is BodyRestored's.      *)
(***************************************************************************)
FittingBodyArrives ==
    (Received /\ \A i \in DOMAIN logs : sent.length <= logs[i].limit)
        => received = sent.length

(***************************************************************************)
(* The documentation says that HTTPRequestWith "restores                   *)
(* http.Request.Body for downstream handlers".  It restores what was read  *)
(* for the log, and a longer body reaches the handler cut.                 *)
(***************************************************************************)
BodyRestored == Received => received = sent.length

(***************************************************************************)
(* The first log of a message shows no part of a body for the whole        *)
(* (payload_http.go, dump.go mapValue).  A log that shows the body, and    *)
(* neither body_truncated nor the "..." of a dump out of fields, shows     *)
(* every byte that was sent; one that shows neither the body nor "..." had *)
(* none to show; body_truncated is said of cut bodies only.  That is but   *)
(* for an entry that the depth, a rule or a mask hides, and for a body     *)
(* that could not be read.  A later log takes a body cut before it for     *)
(* whole, but the body that the last one shows is what the handler gets.   *)
(***************************************************************************)
LogsHonest ==
    (logs # <<>> /\ ~sent.fails) =>
        LET log == logs[1]
            cut == sent.length > log.data
        IN  /\ "body_truncated" \in log.shown => cut
            /\ (cut /\ "body" \in log.shown /\ "body_truncated" \notin log.hides) =>
                   "body_truncated" \in log.shown \/ log.more
            /\ (sent.length > 0 /\ "body" \notin log.hides) =>
                   "body" \in log.shown \/ log.more
            /\ (Received /\ "body" \in Last(logs).shown) => received = Last(logs).data

=============================================================================
