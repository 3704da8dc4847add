-------------------------------- MODULE PrFlow --------------------------------
(***************************************************************************)
(* validate_pr_flow: which branches an agent may author and which pushes it*)
(* may ask for.  A branch name is its first segment, cut at the hyphens    *)
(* into tokens, and what follows the slash.                                *)
(***************************************************************************)
EXTENDS Naturals, Sequences, FiniteSets

CONSTANTS
    AGENT_LANES,         \* the lanes, as sequences of tokens
    REASONING_EFFORTS,   \* tokens
    GENERIC_NAMESPACES   \* first segments no lane owns

Rests == {"no slash", "nothing", "topic", "issue topic"}
None  == "none"

\* A branch: [first : tokens, rest : Rests, safe : BOOLEAN]
PROTECTED_BRANCHES ==
    {[first |-> <<name>>, rest |-> "no slash", safe |-> name # "HEAD"] :
        name \in {"main", "master", "HEAD"}}

\* The lanes the first segment can be read as, with or without an effort.
Owns(lane, first) ==
    \/ first = lane
    \/ \E effort \in REASONING_EFFORTS : first = Append(lane, effort)
Readings(first) == {lane \in AGENT_LANES : Owns(lane, first)}

parse_lane(first) ==
    IF Readings(first) = {} THEN << >>
    ELSE CHOOSE lane \in Readings(first) :
            \A other \in Readings(first) : Len(lane) >= Len(other)

branch_denial(name) ==
    LET lane == parse_lane(name.first) IN
    IF name \in PROTECTED_BRANCHES THEN "protected"
    ELSE IF ~name.safe \/ name.rest = "nothing" THEN "unsafe shape"
    ELSE IF name.rest = "no slash" \/ (lane = << >> /\ name.first \notin GENERIC_NAMESPACES)
         THEN "outside the namespaces"
    ELSE IF lane # << >> /\ name.first # lane /\ name.rest # "issue topic"
         THEN "no issue"
    ELSE None

\* A refspec: [forced, deletes, wild, kind, source, destination]
Refspec(source, destination) ==
    [forced |-> FALSE, deletes |-> FALSE, wild |-> FALSE, kind |-> "branch",
     source |-> source, destination |-> destination]

refspec_denial(spec, current) ==
    IF spec.forced THEN "force push"
    ELSE IF spec.deletes THEN "deletion"
    ELSE IF spec.wild THEN "wildcard"
    ELSE IF spec.kind # "branch" THEN "not a branch"
    ELSE IF spec.destination \in PROTECTED_BRANCHES THEN "protected"
    ELSE IF spec.source # spec.destination THEN "names differ"
    ELSE IF branch_denial(spec.destination) # None THEN branch_denial(spec.destination)
    ELSE IF spec.destination # current THEN "not checked out"
    ELSE None

FORBIDDEN_AGENT_OPERATIONS ==
    {"merge", "auto-merge", "squash-merge", "rebase-main", "push-main", "force-push",
     "delete-ref", "create-tag", "ready-author", "ready-reviewer"}

operation_denial(operation) ==
    IF operation \in FORBIDDEN_AGENT_OPERATIONS THEN "reserved"
    ELSE IF operation \notin {"author", "review", "comment", "draft-pr", "push-work-branch"}
         THEN "unknown"
    ELSE None

=============================================================================
