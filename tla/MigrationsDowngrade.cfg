SPECIFICATION Spec
CONSTANT Found <- WithUsers
INVARIANT DowngradesRun
