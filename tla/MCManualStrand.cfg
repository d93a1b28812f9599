\* Four functions: one in progress, one queued, two dispatched.
CONSTANT Fn = {f1, f2, f3, f4}
SPECIFICATION Spec
INVARIANT TypeOK
INVARIANT TokenInv
INVARIANT MutualExclusion
PROPERTY EveryPushCompletes
PROPERTY ImplementsSerializer
\* The strand is idle once every function has been pushed and has completed.
CHECK_DEADLOCK FALSE
