--------------------------- MODULE FastbootLogPager ---------------------------
(***************************************************************************)
(* The fastboot screen over the fastboot log: src/vboot/ui/fastboot_log.c, *)
(* and fastboot_action, draw_fastboot_log and the paging keys of           *)
(* src/vboot/ui/screens.c.                                                 *)
(*                                                                         *)
(* Each round of the UI loop draws the page and then runs the screen's     *)
(* action: one poll of the session, in which any bytes may be logged, the  *)
(* page update that follows, and the key that was pressed.                 *)
(***************************************************************************)
EXTENDS FastbootLog

CONSTANTS
    chars_per_line,
    lines_per_page

ASSUME PagerAssumption ==
    chars_per_line \in Nat \ {0} /\ lines_per_page \in Nat \ {0}

VARIABLES
    newlines,      \* the bytes of the log that are '\n'
    anchor,        \* top_of_screen_byte_anchor
    on_screen,     \* bytes_on_screen
    seen_total,    \* ui_fastboot_log_info.total_bytes
    next_to_run    \* where the UI loop is

page == <<anchor, on_screen>>
pagerVars == <<logVars, newlines, page, seen_total, next_to_run>>

SIZE_MAX == UINT64_MAX

\* Sums of uint64_t.
Plus(a, b) == (a + b) % (UINT64_MAX + 1)

PagerTypeOK ==
    /\ newlines \subseteq 0 .. MaxTotal - 1
    /\ anchor \in 0 .. UINT64_MAX
    /\ on_screen \in 0 .. SIZE_MAX
    /\ seen_total \in 0 .. UINT64_MAX
    /\ next_to_run \in {"draw", "poll", "update"}

\* ui_fb_log_init
PagerInit ==
    /\ Init
    /\ newlines = {}
    /\ anchor = UINT64_MAX
    /\ on_screen = 0
    /\ seen_total = UINT64_MAX
    /\ next_to_run = "poll"

-----------------------------------------------------------------------------
(* Lines and pages.                                                         *)

IsNewline(iter) == fastboot_log_get_byte_at_iter(iter) \in newlines

Iters == 0 .. SIZE - 1 \cup {UINT64_MAX}
Line(len, iter) == [len |-> len, iter |-> iter]

\* A loop: its state has the length counted so far, the iterator, and whether
\* the loop goes on.  A round is a function on such states.
Loop(len, iter, more) == [len |-> len, iter |-> iter, more |-> more]
LoopStates == [len : Nat, iter : Iters, more : BOOLEAN]
Rounds(round, start, n) ==
    LET after[k \in Nat] == IF k = 0 THEN start ELSE round[after[k - 1]]
    IN  after[n]

\* The loop of get_next_fastboot_log_line counts a character in each round.
NextChar ==
    [s \in LoopStates |->
        LET next == fastboot_log_inc_iter(s.iter)
        IN  IF ~s.more THEN s
            ELSE Loop(s.len + 1, next, next # UINT64_MAX /\ ~IsNewline(s.iter))]

get_next_fastboot_log_line(iter) ==
    LET s == Rounds(NextChar, Loop(0, iter, TRUE), chars_per_line)
    IN  IF iter = UINT64_MAX THEN Line(0, iter)
        ELSE IF s.more /\ IsNewline(s.iter)
        THEN Line(s.len + 1, fastboot_log_inc_iter(s.iter))
        ELSE Line(s.len, s.iter)

\* The loop of get_prev_fastboot_log_line.
PrevChar ==
    [s \in LoopStates |->
        LET prev == fastboot_log_dec_iter(s.iter)
        IN  IF ~s.more THEN s
            ELSE IF IsNewline(s.iter) THEN Loop(s.len, s.iter, FALSE)
            ELSE IF prev = UINT64_MAX THEN Loop(s.len, prev, FALSE)
            ELSE Loop(s.len + 1, prev, TRUE)]

get_prev_fastboot_log_line(iter) ==
    LET prev  == fastboot_log_dec_iter(iter)
        start == IF IsNewline(iter) THEN Loop(1, prev, prev # UINT64_MAX)
                                    ELSE Loop(0, iter, TRUE)
        s     == Rounds(PrevChar, start, chars_per_line)
    IN  IF iter = UINT64_MAX THEN Line(0, iter) ELSE Line(s.len, s.iter)

\* The loops over the lines of a page: no page when one has no length.
Counted(s, line) ==
    IF ~s.more THEN s
    ELSE IF line.len = 0 THEN Loop(0, line.iter, FALSE)
    ELSE Loop(s.len + line.len, line.iter, TRUE)
NextLine == [s \in LoopStates |-> Counted(s, get_next_fastboot_log_line(s.iter))]
PrevLine == [s \in LoopStates |-> Counted(s, get_prev_fastboot_log_line(s.iter))]

get_next_fastboot_log_page_len(start) ==
    Rounds(NextLine, Loop(0, fastboot_log_get_iter(start), TRUE), lines_per_page).len

\* The pieces of the line that the page begins in the middle of, back to the
\* first one; the ring has room for less than SIZE of them.
PrevPiece ==
    [s \in LoopStates |->
        LET line == get_prev_fastboot_log_line(s.iter)
        IN  IF s.iter = UINT64_MAX THEN s
            ELSE IF IsNewline(s.iter) THEN s
            ELSE Loop(line.len, line.iter, TRUE)]

get_prev_fastboot_log_page_len(end) ==
    LET iter  == fastboot_log_get_iter(Plus(end, UINT64_MAX))
        lines == Rounds(PrevLine, Loop(0, iter, TRUE), lines_per_page)
        piece == Rounds(PrevPiece, Loop(0, lines.iter, TRUE), SIZE).len
    IN  IF lines.len = 0 THEN 0
        ELSE IF piece # 0 THEN lines.len - (chars_per_line - piece)
        ELSE lines.len

Page(a, n) == <<a, n>>

ui_fb_log_set_first_page ==
    LET oldest   == fastboot_log_get_oldest_available_byte
        page_len == get_next_fastboot_log_page_len(oldest)
    IN  Page(oldest, IF page_len = 0 THEN SIZE_MAX ELSE page_len)

ui_fb_log_set_last_page ==
    LET got      == get_prev_fastboot_log_page_len(total_len)
        page_len == IF got = 0 THEN total_len - fastboot_log_get_oldest_available_byte
                               ELSE got
    IN  Page(total_len - page_len, page_len)

ui_fb_log_set_next_page(pg) ==
    LET start    == Plus(pg[1], pg[2])
        page_len == get_next_fastboot_log_page_len(start)
    IN  IF page_len = 0 THEN ui_fb_log_set_last_page ELSE Page(start, page_len)

PrevMutant(pg) ==
    LET page_len == get_prev_fastboot_log_page_len(pg[1])
    IN  IF page_len = 0 THEN pg ELSE Page(pg[1] - page_len, page_len)
ui_fb_log_set_prev_page(pg) ==
    LET page_len == get_prev_fastboot_log_page_len(pg[1])
    IN  IF page_len = 0 THEN ui_fb_log_set_first_page
        ELSE Page(pg[1] - page_len, page_len)

-----------------------------------------------------------------------------
(* The screen.                                                              *)

Keys == {"none", "up", "down", "left", "right"}

UpdatedMutant ==
    IF seen_total = total_len THEN page
    ELSE IF seen_total = Plus(anchor, on_screen) THEN ui_fb_log_set_last_page
    ELSE page
\* The page after fastboot_action has seen the bytes of the poll.
Updated ==
    IF seen_total = total_len THEN page
    ELSE IF anchor < fastboot_log_get_oldest_available_byte THEN ui_fb_log_set_first_page
    ELSE IF seen_total = Plus(anchor, on_screen) THEN ui_fb_log_set_last_page
    ELSE page

Pressed(key, pg) ==
    CASE key = "none"  -> pg
      [] key = "up"    -> ui_fb_log_set_prev_page(pg)
      [] key = "down"  -> ui_fb_log_set_next_page(pg)
      [] key = "left"  -> ui_fb_log_set_first_page
      [] key = "right" -> ui_fb_log_set_last_page

\* fastboot_poll: callbacks of the transport, each with the log active.
Callback ==
    /\ next_to_run = "poll"
    /\ fastboot_log_set_active
    /\ UNCHANGED <<newlines, page, seen_total, next_to_run>>

Log ==
    /\ next_to_run = "poll"
    /\ Write
    /\ \E nl \in SUBSET (total_len .. total_len' - 1) : newlines' = newlines \cup nl
    /\ UNCHANGED <<page, seen_total, next_to_run>>

PollReturns ==
    /\ next_to_run = "poll"
    /\ ~active
    /\ next_to_run' = "update"
    /\ UNCHANGED <<logVars, newlines, page, seen_total>>

\* The rest of fastboot_action.
Update(key) ==
    /\ next_to_run = "update"
    /\ anchor' = Pressed(key, Updated)[1]
    /\ on_screen' = Pressed(key, Updated)[2]
    /\ seen_total' = total_len
    /\ next_to_run' = "draw"
    /\ UNCHANGED <<logVars, newlines>>

draw_fastboot_log ==
    LET page_buf == fastboot_log_get_buf(anchor, on_screen)
    IN  /\ next_to_run = "draw"
        /\ on_screen' = IF page_buf = NULL THEN 0 ELSE Len(page_buf)
        /\ next_to_run' = "poll"
        /\ UNCHANGED <<logVars, newlines, anchor, seen_total>>

\* The session has ended: fastboot_action releases it with its log, and opens
\* the next one with ui_fb_log_init.
Reconnect ==
    /\ next_to_run = "poll"
    /\ ~active
    /\ Reopen
    /\ newlines' = {}
    /\ anchor' = UINT64_MAX
    /\ on_screen' = 0
    /\ seen_total' = UINT64_MAX
    /\ UNCHANGED next_to_run

PagerNext == Callback \/ Log \/ PollReturns \/ (\E key \in Keys : Update(key))
             \/ draw_fastboot_log \/ Reconnect

PagerSpec == PagerInit /\ [][PagerNext]_pagerVars

-----------------------------------------------------------------------------
(* Properties.                                                              *)

\* Whatever was logged since, overwritten bytes included, the screen is never
\* blank while the log is not, and what is drawn is inside the log.
PageInLog ==
    next_to_run = "poll" /\ seen_total # UINT64_MAX =>
        /\ anchor >= fastboot_log_get_oldest_available_byte \/ seen_total # total_len
        /\ anchor + on_screen <= total_len
        /\ seen_total > 0 => on_screen > 0

\* A line found going forward has as many characters as lie between its first
\* one and the first one of the next line.
NextLineLength ==
    \A byte \in 0 .. total_len - 1 :
        Available(byte) =>
            LET line == get_next_fastboot_log_line(fastboot_log_get_iter(byte))
            IN  line.len = (IF line.iter = UINT64_MAX THEN total_len
                            ELSE fastboot_log_get_byte_at_iter(line.iter)) - byte

\* A line found going backward has as many characters as lie between its last
\* one and the last one of the previous line, the oldest line included.
PrevLineLength ==
    \A byte \in 0 .. total_len - 1 :
        Available(byte) =>
            LET line == get_prev_fastboot_log_line(fastboot_log_get_iter(byte))
            IN  line.len = byte - (IF line.iter = UINT64_MAX
                                   THEN fastboot_log_get_oldest_available_byte - 1
                                   ELSE fastboot_log_get_byte_at_iter(line.iter))

Settled == next_to_run = "update" /\ seen_total = total_len

\* The down key skips no byte, and shows a later one until the last byte of the
\* log is on the screen.
DownReadsOn ==
    Settled /\ total_len > 0 =>
        LET down == ui_fb_log_set_next_page(page)
        IN  /\ down[1] <= anchor + on_screen
            /\ anchor + on_screen < total_len => down[1] + down[2] > anchor + on_screen

\* The up key skips no byte, and shows an earlier one until the oldest byte of
\* the log is on the screen.
UpReadsBack ==
    Settled /\ total_len > 0 =>
        LET up == ui_fb_log_set_prev_page(page)
        IN  /\ up[1] + up[2] >= anchor
            /\ anchor > fastboot_log_get_oldest_available_byte => up[1] < anchor

\* The first character of the next line, line by line.
LineStep == [iter \in Iters |-> get_next_fastboot_log_line(iter).iter]

\* A page that is drawn fits the screen, also one that begins inside a wrapped
\* line: what lines_per_page lines leave of the log begins behind the page.
PageFits ==
    next_to_run = "poll" /\ Available(anchor) =>
        LET below == Rounds(LineStep, fastboot_log_get_iter(anchor), lines_per_page)
        IN  below = UINT64_MAX \/ fastboot_log_get_byte_at_iter(below) >= anchor + on_screen

\* What draw_fastboot_log shows is a part of the log that fits the screen, and
\* never nothing while there is a log.
PageShown == PagerTypeOK /\ PageInLog /\ PageFits

\* Paging up and down (ui_fb_log_set_prev_page, ui_fb_log_set_next_page) skips
\* no byte and gets to both ends of the log, by lines of the right length.
PagingSkipsNothing == NextLineLength /\ DownReadsOn /\ UpReadsBack
=============================================================================
