------------------------------- MODULE AssetTools -------------------------------
(***************************************************************************)
(* The tools for objects in R2 (internal/tools/r2.go, assets.go; docs.go   *)
(* and userdata.go repeat assets.go under other prefixes), used on one     *)
(* object by several callers at once.  A caller reads the object, then     *)
(* writes or deletes it, with the ETag it has read or without.             *)
(*                                                                         *)
(* A body is the set of the contributions it holds: a write sends what its *)
(* caller has read and one contribution more, so that a body that loses    *)
(* one shows it.  The ETag is a hash of the body: it stands for it.        *)
(***************************************************************************)
EXTENDS Integers

CONSTANTS Callers,      \* callers, each with one read and one write or delete
          Seed,         \* what an object that was there before contains
          MaxAttempts   \* attempts the SDK makes at a request

ASSUME SeedIsNoCaller == Seed \notin Callers
ASSUME MaxAttemptsIsPositive == MaxAttempts \in Nat \ {0}

VARIABLES
  object,    \* the body of the object; {} if there is none
  pc,        \* "start", "read", "called", "answered"
  saw,       \* what ReadAsset returned
  op,        \* "put" or "delete"
  expected,  \* ExpectedETag: "nil", "empty", or the "etag" of saw
  attempts,  \* attempts made at the request; one of them is under way
  late,      \* attempts given up that may still reach the service
  reply,     \* "none", "ok", "mismatch" (ETagMismatchError), "error"
  \* history
  acked,     \* contributions whose write was answered "ok"; Seed is one
  gone,      \* contributions somebody asked to remove
  moved      \* whether the object has changed since the caller read it

callVars == <<pc, saw, op, expected>>
assetVars == <<object, callVars, attempts, late, reply, acked, gone, moved>>

AssetInit ==
  /\ object \in {{}, {Seed}}
  /\ pc = [c \in Callers |-> "start"]
  /\ saw = [c \in Callers |-> {}]
  /\ op = [c \in Callers |-> "put"]
  /\ expected = [c \in Callers |-> "nil"]
  /\ attempts = [c \in Callers |-> 0]
  /\ late = [c \in Callers |-> 0]
  /\ reply = [c \in Callers |-> "none"]
  /\ acked = object
  /\ gone = {}
  /\ moved = [c \in Callers |-> FALSE]

-----------------------------------------------------------------------------
\* Slips: "" is no condition, or the condition that the ETag be "".
WriteAnyway(e) == IF e = "etag" THEN "match" ELSE "none"
WriteMatches(e) == IF e = "nil" THEN "none" ELSE "match"

\* WriteAsset: nil is what a field left out and a null are both decoded to.
WriteCondition(e) ==
  IF e = "nil" THEN "none"
  ELSE IF e = "empty" THEN "absent"   \* If-None-Match: *
  ELSE "match"                        \* If-Match

\* DeleteAsset.
DeleteCondition(e) == IF e = "etag" THEN "match" ELSE "none"

Condition(c) == IF op[c] = "put" THEN WriteCondition(expected[c])
                                 ELSE DeleteCondition(expected[c])

\* The ETag a caller sends as If-Match is that of what it saw; "" is nobody's.
Matches(c) == expected[c] = "etag" /\ object = saw[c] /\ object # {}

\* The service carries a request out if its condition holds, in one step.
Holds(c) == /\ Condition(c) = "absent" => object = {}
            /\ Condition(c) = "match" => Matches(c)

Body(c) == IF op[c] = "put" THEN saw[c] \cup {c} ELSE {}

\* Whoever sets no condition asks for what is there to go; whoever deletes what
\* has the ETag it read asks for that to go.
AskedToGo(c) == IF expected[c] = "nil" THEN object \ Body(c)
                ELSE IF op[c] = "delete" THEN saw[c] ELSE {}

Carry(c) ==
  IF Holds(c)
  THEN /\ object' = Body(c)
       /\ gone' = gone \cup AskedToGo(c)
       /\ moved' = [d \in Callers |-> moved[d] \/ object # Body(c)]
  ELSE UNCHANGED <<object, gone, moved>>

\* A failed precondition is a 412.  Of an object that is not there, services
\* say other things too: a 404, or that it has been deleted.
Response(c) ==
  IF Holds(c) THEN {"ok"}
  ELSE IF object # {} THEN {"412"}
  ELSE {"412", "404"} \cup (IF op[c] = "delete" THEN {"ok"} ELSE {})

\* isETagMismatch and what the tools make of it.
ToolReply(r) == IF r = "ok" THEN "ok" ELSE IF r = "412" THEN "mismatch" ELSE "error"

-----------------------------------------------------------------------------
\* ReadAsset.  (An error leaves the caller where it was.)
Reads(c) ==
  /\ pc[c] = "start"
  /\ pc' = [pc EXCEPT ![c] = "read"]
  /\ saw' = [saw EXCEPT ![c] = object]
  /\ moved' = [moved EXCEPT ![c] = FALSE]
  /\ UNCHANGED <<object, op, expected, attempts, late, reply, acked, gone>>

\* WriteAsset or DeleteAsset is called, and sends its request.
Calls(c, o, e) ==
  /\ pc[c] = "read"
  /\ e = "etag" => saw[c] # {}
  /\ e = "empty" => o = "put"
  /\ pc' = [pc EXCEPT ![c] = "called"]
  /\ op' = [op EXCEPT ![c] = o]
  /\ expected' = [expected EXCEPT ![c] = e]
  /\ attempts' = [attempts EXCEPT ![c] = 1]
  /\ UNCHANGED <<object, saw, late, reply, acked, gone, moved>>

Finish(c, answer) ==
  /\ pc' = [pc EXCEPT ![c] = "answered"]
  /\ reply' = [reply EXCEPT ![c] = answer]

\* The attempt under way is carried out and its response arrives.
Answered(c) ==
  /\ pc[c] = "called"
  /\ Carry(c)
  /\ \E r \in Response(c) : Finish(c, ToolReply(r))
  /\ acked' = IF reply'[c] = "ok" /\ op[c] = "put" THEN acked \cup {c} ELSE acked
  /\ UNCHANGED <<saw, op, expected, attempts, late>>

\* No response arrives: the request may or may not have, or may arrive later.
\* The SDK tries again, unless the attempts are spent or the context has ended.
AttemptLost(c) ==
  /\ pc[c] = "called"
  /\ late' = [late EXCEPT ![c] = @ + 1]
  /\ \/ /\ attempts[c] < MaxAttempts
        /\ attempts' = [attempts EXCEPT ![c] = @ + 1]
        /\ UNCHANGED <<pc, reply>>
     \/ Finish(c, "error") /\ UNCHANGED attempts
  /\ UNCHANGED <<object, saw, op, expected, acked, gone, moved>>

\* An attempt given up reaches the service after all.
LateArrives(c) ==
  /\ late[c] > 0
  /\ late' = [late EXCEPT ![c] = @ - 1]
  /\ Carry(c)
  /\ UNCHANGED <<callVars, attempts, reply, acked>>

AssetNext ==
  \E c \in Callers :
    \/ Reads(c)
    \/ \E o \in {"put", "delete"}, e \in {"nil", "empty", "etag"} : Calls(c, o, e)
    \/ Answered(c)
    \/ AttemptLost(c)
    \/ LateArrives(c)

AssetSpec == AssetInit /\ [][AssetNext]_assetVars

-----------------------------------------------------------------------------
(***************************************************************************)
(* Type invariant.  A request is under way from the call to the answer.    *)
(***************************************************************************)
Bodies == SUBSET (Callers \cup {Seed})

AssetTypeOK ==
  /\ object \in Bodies
  /\ pc \in [Callers -> {"start", "read", "called", "answered"}]
  /\ saw \in [Callers -> Bodies]
  /\ op \in [Callers -> {"put", "delete"}]
  /\ expected \in [Callers -> {"nil", "empty", "etag"}]
  /\ attempts \in [Callers -> 0 .. MaxAttempts]
  /\ late \in [Callers -> 0 .. MaxAttempts]
  /\ reply \in [Callers -> {"none", "ok", "mismatch", "error"}]
  /\ acked \in Bodies
  /\ gone \in Bodies
  /\ moved \in [Callers -> BOOLEAN]
  /\ \A c \in Callers :
       /\ pc[c] \in {"start", "read"} => late[c] = 0 /\ attempts[c] = 0 /\ expected[c] = "nil"
       /\ pc[c] = "called" => attempts[c] > late[c]
       /\ reply[c] # "none" <=> pc[c] = "answered"
       /\ expected[c] = "etag" => saw[c] # {}
       /\ expected[c] = "empty" => op[c] = "put"

(***************************************************************************)
(* No update is lost: a write that was answered "ok" is in the object      *)
(* until somebody asks for that object to be overwritten or deleted.  A    *)
(* conditional write or delete removes nothing its caller has not seen,    *)
(* however often the SDK repeats it and however late a copy arrives.       *)
(***************************************************************************)
AckedIsKept == acked \subseteq object \cup gone

(***************************************************************************)
(* An ETagMismatchError is never a false alarm: the object is not what the *)
(* caller read any more, or it asked to create what it knew was there.     *)
(* (The change may be its own: the answer to its first attempt was lost.)  *)
(***************************************************************************)
MismatchMeansChanged ==
  \A c \in Callers : reply[c] = "mismatch" =>
    moved[c] \/ (expected[c] = "empty" /\ saw[c] # {})

=============================================================================
