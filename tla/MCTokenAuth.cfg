\* A request to the API and a callback for one slot, each with a current and
\* legacy tokens of its own kind and one prefix; weak fairness.
CONSTANTS
    Current = {c1, c2}
    Legacy = {l1, l2, l3}
    Runtime = {c2, l2, l3}
    Requests = {api, frps}
    Callbacks = {frps}
    None = none
    Slots = 1
SPECIFICATION FairSpec
INVARIANTS
    WorkersBounded
    AnswersAreRight
    CurrentNeedsNoSlot
PROPERTIES
    SlotsComeBack
\* All requests are answered.
CHECK_DEADLOCK FALSE
