---------------------------- MODULE DaemonProofs ----------------------------
(* Daemon for any number of daemons and callers: the owner of a transition   *)
(* is alone, so hooks never overlap and the state tells what is held.        *)
EXTENDS Daemon, TLAPS

\* Every daemon begins stopped and every caller idle.
LEMMA TypeInit == Init => TypeOK
  BY DaemonAssumption DEF Init, TypeOK, States, Steps, Starting, Stopping

\* The end of a call leaves the caller idle and its locals cleared.
LEMMA ReturnType ==
  ASSUME TypeOK, NEW c \in Callers, Return(c), UNCHANGED <<state, res>>
  PROVE  TypeOK'
<1>. USE DEF Return, Leave, Goto
<1>1. again' \in [Callers -> BOOLEAN]
  BY DEF TypeOK
<1>2. /\ state' \in [Daemons -> States]
      /\ res' \in [Daemons -> {"none", "part", "all"}]
  BY DEF TypeOK
<1>3. /\ old' \in [Callers -> States]
      /\ want' \in [Callers -> States]
      /\ dmn' \in [Callers -> Daemons \cup {NoDaemon}]
  BY DEF TypeOK, States
<1>4. /\ pc' \in [Callers -> Steps]
      /\ \A e \in Callers : pc'[e] # "idle" => dmn'[e] \in Daemons
  BY DEF TypeOK, Steps
<1>. QED  BY <1>1, <1>2, <1>3, <1>4 DEF TypeOK

\* Every step keeps the type.
LEMMA TypeStep == TypeOK /\ [Next]_vars => TypeOK'
<1>. SUFFICES ASSUME TypeOK, [Next]_vars PROVE TypeOK'
  OBVIOUS
<1>. USE DEF TypeOK, States, Steps, Starting, Stopping, Goto, Leave, Return,
             StopDone, SetState, locals
<1>1. ASSUME NEW c \in Callers, NEW d \in Daemons, CallStart(c, d)
      PROVE  TypeOK'
  BY <1>1 DEF CallStart
<1>2. ASSUME NEW c \in Callers, NEW d \in Daemons, NEW r \in BOOLEAN, CallStop(c, d, r)
      PROVE  TypeOK'
  BY <1>2 DEF CallStop
<1>3. ASSUME NEW c \in Callers, NEW d \in Daemons, NEW s \in States, CallWait(c, d, s)
      PROVE  TypeOK'
  BY <1>3 DEF CallWait
<1>4. ASSUME NEW c \in Callers, StartCas(c)
      PROVE  TypeOK'
  BY <1>4 DEF StartCas
<1>5. ASSUME NEW c \in Callers, StartRefused(c)
      PROVE  TypeOK'
  BY <1>5 DEF StartRefused
<1>6. ASSUME NEW c \in Callers, StartHook(c)
      PROVE  TypeOK'
  BY <1>6 DEF StartHook
<1>7. ASSUME NEW c \in Callers, StartHookFails(c)
      PROVE  TypeOK'
  BY <1>7 DEF StartHookFails
<1>8. ASSUME NEW c \in Callers, SetStarted(c)
      PROVE  TypeOK'
  BY <1>8 DEF SetStarted
<1>9. ASSUME NEW c \in Callers, StartProc(c)
      PROVE  TypeOK'
  BY <1>9 DEF StartProc
<1>10. ASSUME NEW c \in Callers, FailStopping(c)
      PROVE  TypeOK'
  BY <1>10 DEF FailStopping
<1>11. ASSUME NEW c \in Callers, FailHook(c)
      PROVE  TypeOK'
  BY <1>11 DEF FailHook
<1>12. ASSUME NEW c \in Callers, FailStopped(c)
      PROVE  TypeOK'
  BY <1>12 DEF FailStopped
<1>13. ASSUME NEW c \in Callers, StopCas(c)
      PROVE  TypeOK'
  BY <1>13 DEF StopCas
<1>14. ASSUME NEW c \in Callers, StopRefused(c)
      PROVE  TypeOK'
  <2>1. CASE again[c]
    BY <1>14, <2>1 DEF StopRefused
  <2>2. CASE ~again[c]
    <3>1. Return(c) /\ UNCHANGED <<state, res>>
      BY <1>14, <2>2 DEF StopRefused
    <3>. QED  BY ReturnType, <3>1
  <2>. QED  BY <2>1, <2>2
<1>15. ASSUME NEW c \in Callers, StopHook(c)
      PROVE  TypeOK'
  BY <1>15 DEF StopHook
<1>16. ASSUME NEW c \in Callers, SetStopped(c)
      PROVE  TypeOK'
  BY <1>16 DEF SetStopped
<1>17. ASSUME NEW c \in Callers, StopProc(c)
      PROVE  TypeOK'
  <2>1. CASE again[c]
    BY <1>17, <2>1 DEF StopProc
  <2>2. CASE ~again[c]
    <3>1. Return(c) /\ UNCHANGED <<state, res>>
      BY <1>17, <2>2 DEF StopProc
    <3>. QED  BY ReturnType, <3>1
  <2>. QED  BY <2>1, <2>2
<1>18. ASSUME NEW c \in Callers, WaitSleep(c)
      PROVE  TypeOK'
  BY <1>18 DEF WaitSleep
<1>19. ASSUME NEW c \in Callers, WaitReturn(c)
      PROVE  TypeOK'
  BY <1>19 DEF WaitReturn
<1>20. CASE UNCHANGED vars
  BY <1>20 DEF vars
<1>. QED
  BY <1>1, <1>2, <1>3, <1>4, <1>5, <1>6, <1>7, <1>8, <1>9, <1>10, <1>11,
     <1>12, <1>13, <1>14, <1>15, <1>16, <1>17, <1>18, <1>19, <1>20
     DEF Next, Call, Run, Start, Stop, Wait

\* Whatever the callers do, each stands at a step of the code and calls a
\* daemon of the system (daemon.hpp:75-133).
THEOREM TypeCorrect == Spec => []TypeOK
<1>. QED  BY TypeInit, TypeStep, PTL DEF Spec

-----------------------------------------------------------------------------

Owner(c) == pc[c] \in Starting \cup Stopping

\* The owner of a transition is the only one, the state says which transition
\* it is, and the step of the owner what its hooks hold so far.
OwnerInv ==
  /\ \A c, e \in Callers : c # e /\ Owner(c) /\ Owner(e) => dmn[c] # dmn[e]
  /\ \A c \in Callers :
       /\ pc[c] \in Starting => state[dmn[c]] = "STARTING"
       /\ pc[c] \in Stopping => state[dmn[c]] = "STOPPING"
       /\ pc[c] \in {"start_hook", "fail_stopped", "set_stopped"}
            => res[dmn[c]] = "none"
       /\ pc[c] = "set_started" => res[dmn[c]] = "all"

IInv == TypeOK /\ OwnerInv /\ StateTellsResources

\* Nobody owns a transition at first.
LEMMA IInvInit == Init => IInv
<1>. SUFFICES ASSUME Init PROVE IInv
  OBVIOUS
<1>1. OwnerInv /\ StateTellsResources
  BY DEF Init, OwnerInv, StateTellsResources, Owner, Starting, Stopping
<1>. QED  BY <1>1, TypeInit DEF IInv

\* Every step keeps the owner of a transition alone with its daemon.
LEMMA OwnerStep ==
  TypeOK /\ OwnerInv /\ StateTellsResources /\ [Next]_vars
    => OwnerInv' /\ StateTellsResources'
<1>. SUFFICES ASSUME TypeOK, OwnerInv, StateTellsResources, [Next]_vars
              PROVE  OwnerInv' /\ StateTellsResources'
  OBVIOUS
<1>. USE DEF TypeOK, OwnerInv, Owner, StateTellsResources, States, Steps,
             Starting, Stopping, Goto, Leave, Return, StopDone, SetState,
             locals
<1>1. ASSUME NEW c \in Callers, NEW d \in Daemons, CallStart(c, d)
      PROVE  OwnerInv' /\ StateTellsResources'
  BY <1>1 DEF CallStart
<1>2. ASSUME NEW c \in Callers, NEW d \in Daemons, NEW r \in BOOLEAN, CallStop(c, d, r)
      PROVE  OwnerInv' /\ StateTellsResources'
  BY <1>2 DEF CallStop
<1>3. ASSUME NEW c \in Callers, NEW d \in Daemons, NEW s \in States, CallWait(c, d, s)
      PROVE  OwnerInv' /\ StateTellsResources'
  BY <1>3 DEF CallWait
<1>4. ASSUME NEW c \in Callers, StartCas(c)
      PROVE  OwnerInv' /\ StateTellsResources'
  BY <1>4 DEF StartCas
<1>5. ASSUME NEW c \in Callers, StartRefused(c)
      PROVE  OwnerInv' /\ StateTellsResources'
  BY <1>5 DEF StartRefused
<1>6. ASSUME NEW c \in Callers, StartHook(c)
      PROVE  OwnerInv' /\ StateTellsResources'
  BY <1>6 DEF StartHook
<1>7. ASSUME NEW c \in Callers, StartHookFails(c)
      PROVE  OwnerInv' /\ StateTellsResources'
  BY <1>7 DEF StartHookFails
<1>8. ASSUME NEW c \in Callers, SetStarted(c)
      PROVE  OwnerInv' /\ StateTellsResources'
  BY <1>8 DEF SetStarted
<1>9. ASSUME NEW c \in Callers, StartProc(c)
      PROVE  OwnerInv' /\ StateTellsResources'
  BY <1>9 DEF StartProc
<1>10. ASSUME NEW c \in Callers, FailStopping(c)
      PROVE  OwnerInv' /\ StateTellsResources'
  BY <1>10 DEF FailStopping
<1>11. ASSUME NEW c \in Callers, FailHook(c)
      PROVE  OwnerInv' /\ StateTellsResources'
  BY <1>11 DEF FailHook
<1>12. ASSUME NEW c \in Callers, FailStopped(c)
      PROVE  OwnerInv' /\ StateTellsResources'
  BY <1>12 DEF FailStopped
<1>13. ASSUME NEW c \in Callers, StopCas(c)
      PROVE  OwnerInv' /\ StateTellsResources'
  BY <1>13 DEF StopCas
<1>14. ASSUME NEW c \in Callers, StopRefused(c)
      PROVE  OwnerInv' /\ StateTellsResources'
  BY <1>14 DEF StopRefused
<1>15. ASSUME NEW c \in Callers, StopHook(c)
      PROVE  OwnerInv' /\ StateTellsResources'
  BY <1>15 DEF StopHook
<1>16. ASSUME NEW c \in Callers, SetStopped(c)
      PROVE  OwnerInv' /\ StateTellsResources'
  BY <1>16 DEF SetStopped
<1>17. ASSUME NEW c \in Callers, StopProc(c)
      PROVE  OwnerInv' /\ StateTellsResources'
  BY <1>17 DEF StopProc
<1>18. ASSUME NEW c \in Callers, WaitSleep(c)
      PROVE  OwnerInv' /\ StateTellsResources'
  BY <1>18 DEF WaitSleep
<1>19. ASSUME NEW c \in Callers, WaitReturn(c)
      PROVE  OwnerInv' /\ StateTellsResources'
  BY <1>19 DEF WaitReturn
<1>20. CASE UNCHANGED vars
  BY <1>20 DEF vars
<1>. QED
  BY <1>1, <1>2, <1>3, <1>4, <1>5, <1>6, <1>7, <1>8, <1>9, <1>10, <1>11,
     <1>12, <1>13, <1>14, <1>15, <1>16, <1>17, <1>18, <1>19, <1>20
     DEF Next, Call, Run, Start, Stop, Wait

\* Every step keeps the whole invariant.
LEMMA IInvStep == IInv /\ [Next]_vars => IInv'
  BY TypeStep, OwnerStep DEF IInv

\* For any number of threads that start, stop and restart it, the hooks of a
\* daemon never overlap (daemon.hpp:78, :95).
THEOREM HooksNeverOverlap == Spec => []HooksExclusive
<1>1. IInv => HooksExclusive
  BY DEF IInv, OwnerInv, Owner, HooksExclusive, InHook, Starting, Stopping
<1>. QED  BY <1>1, IInvInit, IInvStep, PTL DEF Spec

\* A stable state tells what the daemon holds, also after a start that failed
\* (daemon.hpp:82-88, :99-100).
THEOREM StateIsTrue == Spec => []StateTellsResources
<1>1. IInv => StateTellsResources
  BY DEF IInv
<1>. QED  BY <1>1, IInvInit, IInvStep, PTL DEF Spec

\* Two starts of a daemon are parted by a stop (daemon.hpp:76-103).
THEOREM StartsAlternateAlways == Spec => StartsAlternate
<1>1. IInv /\ [Next]_vars
        => [\A d \in Daemons : res'[d] # res[d] /\ res'[d] # "none"
                                 => res[d] = "none"]_vars
  <2>. SUFFICES ASSUME IInv, Next, NEW d \in Daemons,
                       res'[d] # res[d], res'[d] # "none"
                PROVE  res[d] = "none"
    BY DEF vars
  <2>. USE DEF IInv, TypeOK, OwnerInv, locals, Leave, Return, StopDone, SetState
  <2>1. ASSUME NEW c \in Callers, StartHook(c) \/ StartHookFails(c)
        PROVE  res[d] = "none"
    BY <2>1 DEF StartHook, StartHookFails
  <2>2. ASSUME NEW c \in Callers, FailHook(c) \/ StopHook(c)
        PROVE  FALSE
    BY <2>2 DEF FailHook, StopHook
  <2>3. ASSUME NEW c \in Callers, Call(c) \/ Wait(c)
        PROVE  FALSE
    BY <2>3 DEF Call, CallStart, CallStop, CallWait, Wait, WaitSleep, WaitReturn
  <2>4. ASSUME NEW c \in Callers,
               \/ StartCas(c) \/ StartRefused(c) \/ SetStarted(c)
               \/ StartProc(c) \/ FailStopping(c) \/ FailStopped(c)
        PROVE  FALSE
    BY <2>4 DEF StartCas, StartRefused, SetStarted, StartProc, FailStopping,
                FailStopped
  <2>5. ASSUME NEW c \in Callers,
               StopCas(c) \/ StopRefused(c) \/ SetStopped(c) \/ StopProc(c)
        PROVE  FALSE
    BY <2>5 DEF StopCas, StopRefused, SetStopped, StopProc
  <2>. QED
    BY <2>1, <2>2, <2>3, <2>4, <2>5 DEF Next, Run, Start, Stop
<1>. QED  BY <1>1, IInvInit, IInvStep, PTL DEF Spec, StartsAlternate
=============================================================================
