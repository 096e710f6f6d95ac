------------------------------ MODULE Requests ------------------------------
(***************************************************************************)
(* The requests one fetch_range makes: its recursion over refused ranges,  *)
(* on a provider that retries every request (rpc.py, _with_retry).  The    *)
(* two judge the same exception by different rules: is_retryable decides   *)
(* whether the request is made again, _is_range_error whether the range is *)
(* split once it is not.  HTTP 429 "Too Many Requests" passes both.        *)
(***************************************************************************)
EXTENDS Integers, FiniteSets

CONSTANTS
    Size,         \* the range asked for: blocks 1 .. Size
    MaxAttempts   \* MAX_ATTEMPTS

ASSUME RequestConstants == Size \in Nat \ {0} /\ MaxAttempts \in Nat \ {0}

VARIABLES
    state,     \* running, or how fetch_range was left: returned, raised
    todo,      \* the ranges the recursion still has to request
    attempts,  \* failed attempts at the current request
    received,  \* the blocks whose logs have arrived
    refused,   \* history: the ranges the provider refused as too large
    sent       \* history: requests so far, up to one more than their bound

requestVars == <<state, todo, attempts, received, refused, sent>>

Whole == [from |-> 1, to |-> Size]

\* A binary recursion over n blocks has at most 2n - 1 nodes.
SentBound == MaxAttempts * (2 * Size - 1)

RequestsInit ==
    /\ state = "running"
    /\ todo = {Whole}
    /\ attempts = 0
    /\ received = {}
    /\ refused = {}
    /\ sent = 0

\* The recursion is depth first, left half first.
Current(r) == r \in todo /\ \A s \in todo : r.from <= s.from

\* What a request can fail with: the provider refuses the range as too large,
\* HTTP 429, a broken connection, a timeout or a 5xx, any other JSON-RPC error.
Failures == {"too large", "throttled", "transport", "error"}

\* Mutant: a refused range is retried like any other failure.
AnyRetryable(e) == e # "error"

\* is_retryable: a JSON-RPC error is not, whatever it says.
Retryable(e) == e \in {"throttled", "transport"}

\* _is_range_error: the markers "more than", "too many", "block range", ...
RangeError(e) == e \in {"too large", "throttled"}

\* Mutant: the block in the middle is in neither half.
SplitWithHole(r) ==
    LET mid == (r.from + r.to) \div 2
    IN {[from |-> r.from, to |-> mid - 1],
        [from |-> mid + 1, to |-> r.to]}

\* Mutant: the middle is rounded up, the left half of two blocks is both.
SplitRoundedUp(r) ==
    LET mid == (r.from + r.to + 1) \div 2
    IN {[from |-> r.from, to |-> mid], [from |-> mid + 1, to |-> r.to]}

SplitRange(r) ==
    LET mid == (r.from + r.to) \div 2
    IN {[from |-> r.from, to |-> mid], [from |-> mid + 1, to |-> r.to]}

Splittable(r, e) == r.from < r.to /\ RangeError(e)

\* Every range is a request of its own, with attempts of its own.
NewRequest == attempts' = 0

Count == sent' = IF sent > SentBound THEN sent ELSE sent + 1

Succeed(r) ==
    /\ todo' = todo \ {r}
    /\ received' = received \cup (r.from .. r.to)
    /\ state' = IF todo' = {} THEN "returned" ELSE state
    /\ NewRequest
    /\ UNCHANGED refused

\* Mutant: stop_after_attempt lets one more through.
AttemptsLeftOver == attempts < MaxAttempts

AttemptsLeft == attempts < MaxAttempts - 1

\* tenacity waits and tries again, or reraises; fetch_range then splits the
\* range or lets the exception through.
FailWith(r, e) ==
    /\ refused' = IF e = "too large" THEN refused \cup {r} ELSE refused
    /\ \/ /\ Retryable(e) /\ AttemptsLeft
          /\ attempts' = attempts + 1
          /\ UNCHANGED <<state, todo>>
       \/ /\ ~(Retryable(e) /\ AttemptsLeft) /\ Splittable(r, e)
          /\ todo' = (todo \ {r}) \cup SplitRange(r)
          /\ NewRequest
          /\ UNCHANGED state
       \/ /\ ~(Retryable(e) /\ AttemptsLeft) /\ ~Splittable(r, e)
          /\ state' = "raised" /\ todo' = {}
          /\ NewRequest
    /\ UNCHANGED received

Request ==
    /\ state = "running"
    /\ \E r \in todo :
          /\ Current(r)
          /\ Succeed(r) \/ \E e \in Failures : FailWith(r, e)
    /\ Count

RequestsSpec == RequestsInit /\ [][Request]_requestVars

\* Every request is answered, or times out: request_timeout.
RequestsFairSpec == RequestsSpec /\ WF_requestVars(Request)

-----------------------------------------------------------------------------
(***************************************************************************)
(* Retries inside a recursion do not multiply: whatever the provider       *)
(* answers, and with 429s that split ranges which are not too large, one   *)
(* fetch_range makes at most MaxAttempts requests per node of the tree.    *)
(***************************************************************************)
RequestsBounded == sent <= SentBound

\* A range the provider refused as too large is never requested again (the
\* comment in is_retryable: such an error "cannot succeed on retry").
RefusedIsNotRetried == todo \cap refused = {}

\* fetch_range returns only with every block of the range received.
ReturnsComplete == state = "returned" => received = 1 .. Size

\* fetch_range is left, by return or by exception, whatever the provider does.
FetchEnds == <>(state # "running")

=============================================================================
