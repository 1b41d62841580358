SPECIFICATION TerminalSpec
CONSTANTS
    OLED_WIDTH = 5
    OLED_HEIGHT = 6
    FGA_width = 7
    FGA_height = 4
    Garbage = {0, 3}
    Chars = {"a", "b"}
    FONT_WIDTH = 3
    FONT_HEIGHT = 2
    MARGIN = 2
    CUT = 1
    Columns = {0, 2, 5, 8}
    Rows = {0, 3, 5, 7}
INVARIANTS
    FillsEveryScanline
