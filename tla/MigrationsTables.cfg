SPECIFICATION Spec
CONSTANT Found <- WithUsers
INVARIANT NewestHasTables
