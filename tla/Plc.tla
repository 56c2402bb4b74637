--------------------------------- MODULE Plc ---------------------------------
(* Pro_mini_PLC (rgh/ucp/ino): relays that time out (timed_output_ccv_t),    *)
(* inputs that keep their edges (input_cc_t) and a display scanned one digit *)
(* a tick.  millis() counts modulo Wrap, and `since` is the time that really *)
(* has passed, which the code cannot see.                                    *)
EXTENDS Integers

CONSTANTS Relays, Inputs,
          Wrap,      \* values of millis(), 2^32 on the board
          Timeouts,  \* of relays, 0 for none
          MaxGap,    \* the longest time between two ticks
          Numbers    \* arguments of seg7_write, within int16_t

\* The program calls tick so often that millis() never laps a timeout.
ASSUME PlcAssumption ==
  /\ Timeouts \subseteq Nat /\ MaxGap \in Nat /\ Wrap \in Nat \ {0}
  /\ \A to \in Timeouts : to + MaxGap < Wrap
  /\ Numbers \subseteq Int

VARIABLES now,     \* millis()
          gap,     \* time since the last tick
          relay,   \* relay[r]: _prev_w_ms, _to_ms and whether it is active
          since,   \* since[r]: time since _prev_w_ms was taken, to Wrap at most
          pin,     \* pin[i]: the level of an input, TRUE when active
          input,   \* input[i]: actv, rise, fall and the two latches
          pos,     \* _disp_pos
          buf,     \* _disp_buf, the three digits
          shown,   \* what each place of the display shows
          written  \* the number written last and the ticks since, 4 at most

timing == <<now, gap, relay, since>>
panel  == <<pin, input, pos, buf, shown, written>>
pvars  == <<timing, panel>>

Quiet == [actv |-> FALSE, rise |-> FALSE, fall |-> FALSE,
          riL |-> FALSE, faL |-> FALSE]
Blank == 255
Digits == 0 .. 2

PInit == /\ now = 0 /\ gap = 0 /\ since = [r \in Relays |-> 0]
         /\ relay \in [Relays -> [prev : {0}, to : Timeouts, on : {FALSE}]]
         /\ pin = [i \in Inputs |-> FALSE]
         /\ input = [i \in Inputs |-> Quiet]
         /\ pos = 0 /\ buf = [d \in Digits |-> Blank]
         /\ shown = [p \in 0 .. 3 |-> IF p = 3 THEN {} ELSE 31]
         /\ written = [number |-> -1, ticks |-> 4]

(* timed_output_ccv_t *)

Elapsed(r) == (now - relay[r].prev) % Wrap
\* Mutant: the deadline is added up, and wraps on its own.
ExpiredPast(r) == now >= (relay[r].prev + relay[r].to) % Wrap

Expired(r) == Elapsed(r) >= relay[r].to

\* shadow_set: the time starts again and the level stays.
ShadowSet(r) == /\ relay' = [relay EXCEPT ![r].prev = now]
                /\ since' = [since EXCEPT ![r] = 0]
                /\ UNCHANGED <<now, gap>>

Set(r, to) == /\ relay' = [relay EXCEPT ![r] =
                             [prev |-> now, to |-> to, on |-> TRUE]]
              /\ since' = [since EXCEPT ![r] = 0]
              /\ UNCHANGED <<now, gap>>
SetOnce(r) == ~relay[r].on /\ Set(r, relay[r].to)
SetTo(r) == \E to \in Timeouts : Set(r, to)

\* A timeout given to a relay that has been on for longer than Wrap would be
\* measured from a start that is lost: it is given before the relay is on.
SetTimeout(r) == /\ ~relay[r].on
                 /\ \E to \in Timeouts : relay' = [relay EXCEPT ![r].to = to]
                 /\ UNCHANGED <<now, gap, since>>

Reset(r) == /\ relay' = [relay EXCEPT ![r].on = FALSE]
            /\ UNCHANGED <<now, gap, since>>

RelayTicked(r) == IF relay[r].to # 0 /\ Expired(r)
                  THEN [relay[r] EXCEPT !.on = FALSE] ELSE relay[r]

(* input_cc_t *)

InputTicked(i) ==
  LET rise == pin[i] /\ ~input[i].actv
      fall == ~pin[i] /\ input[i].actv
  IN [actv |-> pin[i], rise |-> rise, fall |-> fall,
      riL |-> input[i].riL \/ rise, faL |-> input[i].faL \/ fall]

AskLatched(i) == /\ \/ input' = [input EXCEPT ![i].riL = FALSE]
                    \/ input' = [input EXCEPT ![i].faL = FALSE]
                 /\ UNCHANGED <<timing, pin, pos, buf, shown, written>>

(* The display *)

\* There are 31 symbols; an index beyond them, as the buffer is filled with at
\* the start, reads whatever lies there: what a digit looks like, or not.
Segments(d) == IF d <= 30 THEN {d} ELSE {0, 31}

\* Division and remainder as in C: towards zero, with the sign of the number;
\* the digit is then cut to eight bits.
Sign(n) == IF n < 0 THEN -1 ELSE 1
Digit(n, weight) == (Sign(n) * (((Sign(n) * n) \div weight) % 10)) % 256

Seg7Write(n) == /\ buf' = [d \in Digits |-> Digit(n, <<100, 10, 1>>[d + 1])]
                /\ written' = [number |-> n, ticks |-> 0]
                /\ UNCHANGED <<timing, pin, input, pos, shown>>

\* The place on the right shows the inputs, the others their digit.
Seg7DispTick ==
  /\ IF pos = 3
     THEN shown' = [shown EXCEPT ![3] = {i \in Inputs : input'[i].actv}]
     ELSE \E s \in Segments(buf[pos]) : shown' = [shown EXCEPT ![pos] = s]
  /\ pos' = (pos + 1) % 4

(* The board *)

\* tick: relays, then buttons and inputs, then the display, all at the same
\* millis().
Tick == /\ relay' = [r \in Relays |-> RelayTicked(r)]
        /\ input' = [i \in Inputs |-> InputTicked(i)]
        /\ Seg7DispTick
        /\ gap' = 0
        /\ written' = [written EXCEPT !.ticks = IF @ < 4 THEN @ + 1 ELSE @]
        /\ UNCHANGED <<now, since, pin, buf>>

Pass == /\ gap < MaxGap
        /\ now' = (now + 1) % Wrap
        /\ gap' = gap + 1
        /\ since' = [r \in Relays |-> IF since[r] < Wrap THEN since[r] + 1
                                      ELSE Wrap]
        /\ UNCHANGED <<relay, panel>>

PinTurns(i) == /\ pin' = [pin EXCEPT ![i] = ~@]
               /\ UNCHANGED <<timing, input, pos, buf, shown, written>>

RelayNext == \/ Tick \/ Pass
             \/ /\ \E r \in Relays : \/ ShadowSet(r) \/ SetOnce(r) \/ SetTo(r)
                                     \/ SetTimeout(r) \/ Reset(r)
                /\ UNCHANGED panel
PanelNext == \/ Tick
             \/ \E i \in Inputs : PinTurns(i) \/ AskLatched(i)
             \/ \E n \in Numbers : Seg7Write(n)

(* Properties *)

\* The last three digits of a number, read from the display.
OnDisplay == 100 * shown[0] + 10 * shown[1] + shown[2]

\* No relay outlives its time at a tick; the display shows a number four ticks
\* after it was written, if it is not negative.
OnTime == gap = 0 => \A r \in Relays : relay[r].on /\ relay[r].to # 0
                                         => since[r] < relay[r].to
Shows == written.number >= 0 /\ written.ticks = 4
           => OnDisplay = written.number % 1000

\* A tick drops a relay exactly when its time is up, on either side of the
\* wrap of millis(), and nothing but a reset drops one otherwise; and four
\* ticks after a number was written the display shows its last three digits
\* (ino/core.hpp:75-112, pro_mini_plc.hpp:84-139).
RelaysAndDigitsHold ==
  [][/\ OnTime' /\ Shows'
     /\ \A r \in Relays :
          relay[r].on /\ ~relay'[r].on =>
            \/ Reset(r)
            \/ relay[r].to # 0 /\ since[r] >= relay[r].to]_pvars
=============================================================================
