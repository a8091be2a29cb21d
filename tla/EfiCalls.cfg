\* Every stub, interrupted anywhere.
CONSTANT Interrupts = TRUE
SPECIFICATION Spec
INVARIANTS ArgumentsArrive CallsAligned CallerUndisturbed
