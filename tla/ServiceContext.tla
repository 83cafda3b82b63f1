---------------------------- MODULE ServiceContext ----------------------------
(***************************************************************************)
(* The state every TWS service shares (services/service_context.h): the    *)
(* counter that hands out request ids and the queue of status messages for *)
(* the function bar.  The client pointer is not modelled: IbkrClient::Impl *)
(* sets it in its constructor, so in the running program it is never null  *)
(* and every `if (ctx_.client)' takes its first branch.                    *)
(***************************************************************************)
EXTENDS Naturals, FiniteSets

CONSTANTS
    MaxReqId,       \* bound: the last request id that may be handed out
    MaxStatuses     \* bound: kinds of message queued between two drains

ASSUME BoundsAssumption == MaxReqId \in Nat /\ MaxStatuses \in Nat

VARIABLES
    next_req_id,    \* ServiceContext::next_req_id
    status_queue    \* kinds of the messages queued since the last drain

\* ServiceContext::next_req_id starts here; ids are handed out above it.
InitialReqId == 1000
ReqIds == (InitialReqId + 1)..MaxReqId

\* The services' "no request" sentinel.
NoReqId == 0

ContextInit ==
    /\ next_req_id = InitialReqId
    /\ status_queue = {}

\* NextReqId(): pre-increment.  (The variant returns the counter as it was.)
NextReqIdPostIncrement == next_req_id
NextReqId == next_req_id + 1

\* n ids are left below the bound, and are taken.
CanAllocate(n) == next_req_id + n <= MaxReqId
NotAdvancedVariant(n) == CanAllocate(n) /\ UNCHANGED next_req_id
Allocate(n) == CanAllocate(n) /\ next_req_id' = next_req_id + n

\* EmitStatus(): the wording is left out, a message is its kind.  Order and
\* repetition inside one drain are abstracted by a set.
EmitStatus(kinds) ==
    /\ Cardinality(status_queue \union kinds) <= MaxStatuses
    /\ status_queue' = status_queue \union kinds

\* Dispatcher::DrainStatus() swaps the queue with an empty one.
DrainQueue == status_queue # {} /\ status_queue' = {}

=============================================================================
