------------------------------ MODULE LineEditor ------------------------------
(***************************************************************************)
(* The shell of OS/projects/p3: shell.c reads lines key by key into the    *)
(* slots of a history and hands each to a callback.  Its static structure  *)
(* is one array of bytes here, the saved terminal settings last, because   *)
(* that is where a write past the history goes.                            *)
(***************************************************************************)
EXTENDS Integers, Sequences, FiniteSetsExt

CONSTANTS H,         \* history slots, 96 in the code
          N,         \* bytes per slot, 160 in the code
          T,         \* bytes of struct termios: fewer than N, as in the code
          Printable, \* keys with a picture, but not the blank
          QuitKey    \* the line of this key alone is the command quit

Blank == 32

Saved == 255      \* what the bytes of the terminal settings are at first

ASSUME EditorAssumption ==
    /\ {H, N, T} \subseteq Nat \ {0} /\ T < N
    /\ Printable \subseteq 1 .. 254 /\ Blank \notin Printable

VARIABLES
    mode,     \* "off", "typing", "quit", "wild": outside of mem
    mem,      \* state.history and state.termios
    count,    \* state.n
    slot,     \* the slot of buf, which is state.i
    recalled, \* j, the slot shown
    cursor,   \* i
    length,   \* n, the length of the line
    asked,    \* the last line entered, trimmed
    given     \* what the callback got for it

editorVars == <<mode, mem, count, slot, recalled, cursor, length, asked, given>>

Bytes == 0 .. H * N + T - 1

buf == slot * N

strlen(m, at) == Min({k \in 0 .. H * N + T - at : at + k \notin Bytes \/ m[at + k] = 0})

memmove(m, to, from, size) ==
    [b \in Bytes |-> IF b \in to .. to + size - 1 THEN m[from + b - to] ELSE m[b]]

EditorInit == /\ mode = "off" /\ mem = [b \in Bytes |-> 0] /\ count = 0
              /\ slot = 0 /\ recalled = 0 /\ cursor = 0 /\ length = 0 /\ asked = <<>> /\ given = <<>>

\* configure, and the first read_line.
Configure == /\ mode = "off"
             /\ mode' = "typing"
             /\ mem' = [b \in Bytes |-> IF b < H * N THEN 0 ELSE Saved]
             /\ UNCHANGED <<count, slot, recalled, cursor, length, asked, given>>

-----------------------------------------------------------------------------
(* One action for each key. *)

\* A key that writes size bytes at a place and leaves a line of nn bytes.  Past the end of
\* the structure, for the bytes or for the line's terminator, anything may follow.
Edit(at, size, m, ii, nn) ==
    /\ mode = "typing"
    /\ IF at + size <= H * N + T /\ buf + nn \in Bytes
       THEN mem' = m /\ cursor' = ii /\ length' = nn /\ mode' = mode
       ELSE mode' = "wild" /\ UNCHANGED <<mem, cursor, length>>
    /\ UNCHANGED <<count, slot, asked, given>>

\* strncpy pads with zeros to N bytes.
Shown(k) ==
    IF k = slot THEN [mem EXCEPT ![buf] = 0]
    ELSE [b \in Bytes |->
            IF b \notin buf .. buf + N - 1 THEN mem[b]
            ELSE IF b - buf < strlen(mem, k * N) THEN mem[k * N + b - buf] ELSE 0]

Show(k) == /\ Edit(buf, IF k = slot THEN 1 ELSE N, Shown(k), strlen(Shown(k), buf), strlen(Shown(k), buf))
           /\ recalled' = k

\* The arrow keys, with the guards of A and B.
Up == recalled > 0 /\ Show(recalled - 1)
Down == recalled < count /\ Show(recalled + 1)

Right == /\ Edit(buf, 0, mem, IF cursor < length THEN cursor + 1 ELSE length, length)
         /\ recalled' = recalled
Left == /\ Edit(buf, 0, mem, IF cursor > 0 THEN cursor - 1 ELSE 0, length)
        /\ recalled' = recalled

\* Control-K, control-D and backspace.
Kill == Edit(buf + cursor, 1, [mem EXCEPT ![buf + cursor] = 0], cursor, cursor) /\ recalled' = recalled

DeleteNext == /\ length > cursor /\ recalled' = recalled
              /\ Edit(buf + cursor, 1,
                      memmove(mem, buf + cursor, buf + cursor + 1, strlen(mem, buf + cursor + 1) + 1),
                      cursor, length - 1)

DeleteLast == /\ cursor > 0 /\ recalled' = recalled
              /\ Edit(buf + cursor - 1, 1,
                      memmove(mem, buf + cursor - 1, buf + cursor, strlen(mem, buf + cursor) + 1),
                      cursor - 1, length - 1)

\* A blank may be the N-th character; its terminator is then the next slot's first byte.
TypeBlank == /\ length < N /\ recalled' = recalled
             /\ Edit(buf, length + 2,
                     [memmove(mem, buf + cursor + 1, buf + cursor, strlen(mem, buf + cursor) + 1)
                        EXCEPT ![buf + cursor] = Blank],
                     cursor + 1, length + 1)

\* Mutant: the line is not terminated again behind the character added.
Unterminated(m) == m

Terminated(m) == [m EXCEPT ![buf + length + 1] = 0]

Type(c) == /\ length + 1 < N /\ recalled' = recalled
           /\ Edit(buf, length + 2,
                   Terminated([memmove(mem, buf + cursor + 1, buf + cursor, length - cursor) EXCEPT ![buf + cursor] = c]),
                   cursor + 1, length + 1)

\* shell_strtrim of a line.
Trimmed(s) ==
    LET ink == {k \in DOMAIN s : s[k] # Blank}
    IN IF ink = {} THEN <<>> ELSE SubSeq(s, Min(ink), Max(ink))

Line(m) == [k \in 1 .. strlen(m, buf) |-> m[buf + k - 1]]

Next_n == IF count + 1 < H THEN count + 1 ELSE H

\* The end of read_line, the callback, and the next read_line or the end of shell.  The
\* first byte of the next slot is cleared before the line is handed over.
Enter ==
    /\ mode = "typing"
    /\ LET s == Trimmed(Line(mem))
           trimmed == [b \in Bytes |-> IF b \in buf .. buf + Len(s) - 1 THEN s[b - buf + 1]
                                       ELSE IF b = buf + Len(s) THEN 0 ELSE mem[b]]
           m == IF s = <<>> THEN trimmed ELSE [trimmed EXCEPT ![Next_n * N] = 0]
       IN /\ mem' = m
          /\ IF s = <<>> THEN UNCHANGED <<asked, given, count>>
             ELSE asked' = s /\ given' = Line(m) /\ count' = Next_n
          /\ mode' = IF s # <<>> /\ Line(m) = <<QuitKey>> THEN "quit" ELSE mode
          /\ slot' = count' /\ recalled' = count'
          /\ cursor' = strlen(m, count' * N) /\ length' = strlen(m, count' * N)

EditorNext ==
    \/ Configure
    \/ Up \/ Down \/ Left \/ Right
    \/ Kill \/ DeleteNext \/ DeleteLast
    \/ TypeBlank
    \/ \E c \in Printable : Type(c)
    \/ Enter

EditorSpec == EditorInit /\ [][EditorNext]_editorVars

-----------------------------------------------------------------------------
(* Properties. *)

\* The cursor is in the line and the length is that of the bytes, whatever was deleted,
\* inserted or fetched from the history; while a slot is left the callback gets the line
\* that was entered; and before the last slot, whose end a full line has in common with
\* the terminal settings, nothing outside the structure is read or written.
LinesSound ==
    /\ mode = "typing" => cursor \in 0 .. length /\ length = strlen(mem, buf) /\ recalled \in 0 .. count
    /\ slot < H => given = asked
    /\ slot < H - 1 => mode # "wild"

\* A line entered as quit ends the shell (main.c:102: "quit : exit the program").
QuitExits == asked = <<QuitKey>> => mode = "quit"
=============================================================================
