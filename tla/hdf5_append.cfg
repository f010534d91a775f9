\* Lines appended to one dataset in two sessions.
SPECIFICATION Spec
CONSTANT Layouts <- TwoSessions
INVARIANT AppendsKept
