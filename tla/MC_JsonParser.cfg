\* JsonParser::parse on writer output and on short malformed texts.
CONSTANTS
    Inputs <- MCInputs
SPECIFICATION Spec
INVARIANT TypeOK RoundTrip ArrayProgress
\* parse() returns: its final states have no successor.
CHECK_DEADLOCK FALSE
