------------------------- MODULE MCPaymentPipeline -------------------------
\* Each cfg names its instructions, its workers, the kinds of payload M-PESA
\* may send about each instruction and the faults of its environment.
EXTENDS PaymentPipeline, TLC

CONSTANT CallbackKinds

MCCallbacks == CallbackKinds \X Instr
MCKind == [c \in MCCallbacks |-> c[1]]
MCOf   == [c \in MCCallbacks |-> c[2]]

Symmetry == Permutations(Instr) \cup Permutations(PayWorkers) \cup Permutations(CbWorkers)

===========================================================================
