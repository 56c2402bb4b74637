------------------------------ MODULE Commands ------------------------------
(* The command map of Fast_cli (fastcli.hpp): a vector kept in order, in     *)
(* which execute looks a command up by binary search.  A name is a number,   *)
(* ordered as the texts are; two commands may have the same name, and each   *)
(* has an identity of its own: below 0 when it came with bind, above when it *)
(* was pushed.  No command changes the map while it runs.                    *)
EXTENDS Integers, Sequences, SequencesExt, FiniteSets

CONSTANTS CmdNames,  \* the names of commands, Man among them
          Man,       \* the name of the command "man"
          MaxCmds    \* bound on the commands of a map

ASSUME CommandsAssumption ==
  CmdNames \subseteq Int /\ Man \in CmdNames /\ MaxCmds \in Nat

VARIABLES cmdMap,  \* _cmd_map
          whenMan, \* _config.when_man is set
          ran,     \* the name executed last, and the command it found
          born     \* pushes since the bind, -1 before there is a map

mvars == <<cmdMap, whenMan, ran, born>>

Missing == 0
TextsOf(m) == {m[k].text : k \in DOMAIN m}

\* std::ranges::lower_bound: halving, whether the sequence is in order or not.
\* A range is its first place and its length.
LowerBound(m, text) ==
  LET ranges == {r \in (1 .. Len(m) + 1) \X (0 .. Len(m)) :
                   r[1] + r[2] <= Len(m) + 1}
      go[r \in ranges] ==
        LET half   == r[2] \div 2
            middle == r[1] + half
        IN IF r[2] = 0 THEN r[1]
           ELSE IF m[middle].text < text THEN go[<<middle + 1, r[2] - half - 1>>]
           ELSE go[<<r[1], half>>]
  IN go[<<1, Len(m)>>]

Inserted(m, cmd) == InsertAt(m, LowerBound(m, cmd.text), cmd)

\* std::ranges::sort: some order of the same commands, their names rising.
Ordered(m) ==
  {s \in {[k \in DOMAIN m |-> m[p[k]]] :
            p \in {q \in [DOMAIN m -> DOMAIN m] :
                     Cardinality({q[k] : k \in DOMAIN m}) = Len(m)}} :
     \A j, k \in DOMAIN m : j < k => s[j].text <= s[k].text}

\* _prepare: "man" is pushed into a map that need not be in order yet, and the
\* map is sorted after that.
Prepared(m, man) ==
  Ordered(IF man THEN Inserted(m, [text |-> Man, id |-> -(Len(m) + 1)])
          ELSE m)

MInit == cmdMap = <<>> /\ whenMan = FALSE /\ ran = <<>> /\ born = -1

\* bind, and the constructor: a map in any order; the config is the new one.
Bind == /\ \E n \in 0 .. MaxCmds - 1 :
             \E texts \in [1 .. n -> CmdNames \ {Man}], man \in BOOLEAN :
               /\ cmdMap' \in
                    Prepared([k \in 1 .. n |-> [text |-> texts[k], id |-> -k]],
                             man)
               /\ whenMan' = man
        /\ born' = 0
        /\ UNCHANGED ran

PushCmd == /\ born \in 0 .. MaxCmds - 1 /\ Len(cmdMap) < MaxCmds
           /\ \E text \in CmdNames :
                cmdMap' = Inserted(cmdMap, [text |-> text, id |-> born + 1])
           /\ born' = born + 1
           /\ UNCHANGED <<whenMan, ran>>

\* The first of the name is erased.
PopCmd == \E text \in TextsOf(cmdMap) :
            /\ cmdMap' = RemoveAt(cmdMap,
                           SelectInSeq(cmdMap, LAMBDA c : c.text = text))
            /\ UNCHANGED <<whenMan, ran, born>>

\* _consume_toks: the command found is the one lower_bound points at, if it
\* has the name.
Lookup(text) ==
  LET k == LowerBound(cmdMap, text)
  IN IF k <= Len(cmdMap) /\ cmdMap[k].text = text THEN cmdMap[k].id
     ELSE Missing

ConsumeToks == /\ born >= 0
               /\ \E text \in CmdNames : ran' = <<text, Lookup(text)>>
               /\ UNCHANGED <<cmdMap, whenMan, born>>

\* "man -c" finds its command from the front, without the order.
ManOf(text) == LET k == SelectInSeq(cmdMap, LAMBDA c : c.text = text)
               IN IF k = 0 THEN Missing ELSE cmdMap[k].id

MNext == Bind \/ PushCmd \/ PopCmd \/ ConsumeToks

(* Properties *)

\* However the map came about, every command in it can be executed, the one
\* found for a name is the one "man" describes and the next pop erases, and
\* of two pushed under a name the later answers (fastcli.hpp:268-316,
\* 397-411).
CommandsAreFound ==
  /\ \A text \in CmdNames :
       /\ Lookup(text) = Missing <=> text \notin TextsOf(cmdMap)
       /\ Lookup(text) = ManOf(text)
  /\ \A j, k \in DOMAIN cmdMap :
       /\ j < k
       /\ cmdMap[j].text = cmdMap[k].text
       /\ cmdMap[j].id > 0 \/ cmdMap[k].id > 0
       => cmdMap[j].id > cmdMap[k].id
=============================================================================
