CONSTANTS
    SIZE = 7
    Counts = {1, 4}
    MaxTotal = 9
    chars_per_line = 2
    lines_per_page = 2
SPECIFICATION PagerSpec
INVARIANT PrevLineLength
