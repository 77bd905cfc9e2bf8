\* Every load under every combination of fetch outcomes. A load ends once
\* its data is rendered.
CONSTANT Pages <- AllPages
SPECIFICATION Spec
INVARIANT FailedFetchesCaught
CHECK_DEADLOCK FALSE
