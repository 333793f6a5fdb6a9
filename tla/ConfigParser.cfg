\* Every configuration text of up to five characters, parsed once.  After
\* the one Parse call the model stops, as the program does.
CONSTANT Inputs <- MCInputs
SPECIFICATION Spec
INVARIANT TypeOK
INVARIANT RoundTrip
CHECK_DEADLOCK FALSE
