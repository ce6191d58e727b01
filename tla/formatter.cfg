CONSTANTS
    Chars = {"%", "d", "lb", "rb", "m", "x"}
    MaxLen = 7
SPECIFICATION FormatterSpec
INVARIANT RoundTrip
CHECK_DEADLOCK FALSE
