------------------------------- MODULE MCTools -------------------------------
(* The tools of the library, one of them at work in a behaviour: Fast_cli on *)
(* lines, with the options of a command that has one of each kind, Fast_exp  *)
(* on expressions, its command map, grid_t, the optimisation methods,        *)
(* textures, render targets, the BMP280 and BME280 drivers, the relays of    *)
(* the PLC board and its inputs and display.                                 *)
EXTENDS FastExp, FastCli, Grid, Optim, GlAssets, Bmx280, Plc

(* Lines and expressions *)

Tok(dashes, name, number) ==
  [dashes |-> dashes, name |-> name, number |-> number]
Opt(sh0rt, l0ng, arg, fast_id, argc) ==
  [sh0rt |-> sh0rt, l0ng |-> l0ng, arg |-> arg, fast_id |-> fast_id,
   argc |-> argc]

MCTokens == {Tok(1, "f", FALSE), Tok(2, "text", FALSE), Tok(1, "c", FALSE),
             Tok(1, "v", FALSE), Tok(0, "w", FALSE), Tok(0, "1", TRUE),
             Tok(1, "1", TRUE)}
MCOpts == <<Opt("f", "flag", "flag", -1, "single"),
            Opt("v", "value", "number", 0, "single"),
            Opt("c", "coeffs", "number", 1, "multi"),
            Opt("t", "text", "text", 2, "single")>>

(* Grids of two dimensions, one of them downwards as the dock's y is *)

MCSpanNs == {<< <<2, 0, 2>>, <<4, 4, 0>> >>, << <<3, -3, 3>>, <<2, 4, 0>> >>}
MCSpanSs == {<< <<2, 0, 6>>, <<3, 6, 0>> >>, << <<1, -2, 0>>, <<2, -1, 3>> >>}
MCSamples == {<<1, 2, 1>>, <<-1, 1, 0>>, <<-1, -3, -1>>, <<0, 0, 1>>}

(* Optimisation *)

MCValleys == {<<200, 1, 1>>, <<0, 1, 3>>, <<999, 3, 1>>, <<430, 3, 1>>,
              <<1000, 1, 1>>}
MCEnds == {<<0, 1000>>, <<1000, 0>>, <<-300, 600>>}
MCQuadrics == {<<1, 0, 1, 0, 0>>, <<1, 1, 2, 8, -16>>, <<2, 3, 1, 1, 1>>,
               <<1, 2, 1, 4, 0>>}
MCStarts == {<<0, 0>>, <<64, 0>>, <<0, -64>>, <<64, 64>>, <<-128, 64>>}

(* Numbers on the display *)

MCNumbers == {7, 1042, -1}

VARIABLE unit

OIdle == meth = "none" /\ fun = <<>> /\ st = <<>>
PIdle == \A r \in Relays : relay[r].to = 0

Init == /\ unit \in {"cli", "map", "exp", "grid", "optim", "tex", "target",
                     "bmx", "relay", "panel"}
        /\ CInit /\ MInit /\ EInit /\ GInit /\ AInit /\ BInit /\ PInit
        /\ IF unit = "optim" THEN OInit ELSE OIdle
        /\ unit # "bmx" => chip = "bmp"
        /\ unit # "relay" => PIdle

Next ==
  \/ unit = "cli" /\ CNext
     /\ UNCHANGED <<unit, mvars, evars, gvars, ovars, avars, bmxvars, pvars>>
  \/ unit = "map" /\ MNext
     /\ UNCHANGED <<unit, cvars, evars, gvars, ovars, avars, bmxvars, pvars>>
  \/ unit = "exp" /\ ENext
     /\ UNCHANGED <<unit, cvars, mvars, gvars, ovars, avars, bmxvars, pvars>>
  \/ unit = "grid" /\ GNext
     /\ UNCHANGED <<unit, cvars, mvars, evars, ovars, avars, bmxvars, pvars>>
  \/ unit = "optim" /\ ONext
     /\ UNCHANGED <<unit, cvars, mvars, evars, gvars, avars, bmxvars, pvars>>
  \/ unit = "tex" /\ TexNext
     /\ UNCHANGED <<unit, cvars, mvars, evars, gvars, ovars, bmxvars, pvars>>
  \/ unit = "target" /\ TargNext
     /\ UNCHANGED <<unit, cvars, mvars, evars, gvars, ovars, bmxvars, pvars>>
  \/ unit = "bmx" /\ BNext
     /\ UNCHANGED <<unit, cvars, mvars, evars, gvars, ovars, avars, pvars>>
  \/ unit = "relay" /\ RelayNext
     /\ UNCHANGED <<unit, cvars, mvars, evars, gvars, ovars, avars, bmxvars>>
  \/ unit = "panel" /\ PanelNext
     /\ UNCHANGED <<unit, cvars, mvars, evars, gvars, ovars, avars, bmxvars>>

Spec == Init /\ [][Next]_<<unit, cvars, mvars, evars, gvars, ovars, avars, bmxvars, pvars>>
=============================================================================
