------------------------------ MODULE GlAssets ------------------------------
(* The OpenGL objects of rgh/osp/immersive.hpp: textures shared through HVec, *)
(* the payload ring that carries their uploads to the render thread, and the *)
(* stack of render targets.  OpenGL is external: a set of live names, which  *)
(* it gives out again once deleted, and the framebuffer that is bound.  The  *)
(* ring is a sequence here (MpscRing is the ring itself), and Immersive is   *)
(* zeroed before its slots are used, as bridge.hpp:125 has it.               *)
EXTENDS Integers, Sequences, SequencesExt, FiniteSets

CONSTANTS Texs,      \* imm::Tex objects, each in an HVec
          Targs,     \* imm::Ren_target objects
          MaxNames,  \* bound on live names
          RingCap,   \* slots of _payload_ring, 16 in the code
          MaxRefs,   \* bound on the handles kept of one texture
          MaxStack   \* bound on nested render targets

\* An object is a texture or a target.
ASSUME GlAssumption == MaxNames \in Nat /\ Texs \cap Targs = {}

VARIABLES live,   \* names OpenGL has given out and not taken back
          gone,   \* of these, names whose object died outside the GL thread
          tex,    \* tex[t]: its _glidx, or NoTex
          refs,   \* refs[t]: handles of t outside the ring
          ring,   \* the payloads not resolved yet
          targ,   \* targ[g]: its _tex_glidx, _fbo and _rbo
          stack,  \* _ren_targs, the top last
          bound   \* the framebuffer bound

avars == <<live, gone, tex, refs, ring, targ, stack, bound>>
others == <<refs, ring, targ, stack, bound>>  \* what a Tex leaves alone

NONE == 0
NoTex == -1
Verbs == {"upld", "reld"}

\* What glGen* gives: the least name that is not live.
Fresh(taken) ==
  CHOOSE n \in 1 .. MaxNames + 4 :
    n \notin taken /\ \A k \in 1 .. n - 1 : k \in taken

AInit == /\ live = {} /\ gone = {} /\ ring = <<>> /\ stack = <<>>
         /\ tex = [t \in Texs |-> NoTex]
         /\ refs = [t \in Texs |-> 0]
         /\ targ = [g \in Targs |-> [tex |-> NONE, fbo |-> NONE, rbo |-> NONE]]
         /\ bound = NONE

(* imm::Tex *)

InRing(t, q) == \E k \in DOMAIN q : q[k].ref = t
Alive(t) == refs[t] > 0 \/ InRing(t, ring)

\* Mutant: no refusal, the name at hand is written over.
UploadedAlways(x) == Fresh(live)

\* upld of an image: a texture that has a name refuses.  The load of a file
\* adds a failure of its own, and nothing else.
Uploaded(x) == IF x # NONE THEN x ELSE Fresh(live)

\* deld, and with it the destructor, on the thread that has the context.
Deld(t, left) == /\ live' = live \ {tex[t]}
                 /\ tex' = [tex EXCEPT ![t] = left]

NewTex(t) == /\ ~Alive(t) /\ tex[t] = NoTex
             /\ tex' = [tex EXCEPT ![t] = NONE]
             /\ refs' = [refs EXCEPT ![t] = 1]
             /\ UNCHANGED <<live, gone, ring, targ, stack, bound>>

\* The move constructor hands the name over.
MoveTex(t, u) == /\ refs[t] > 0 /\ tex[u] = NoTex /\ refs[u] = 0
                 /\ tex' = [tex EXCEPT ![u] = tex[t], ![t] = NONE]
                 /\ refs' = [refs EXCEPT ![u] = 1]
                 /\ UNCHANGED <<live, gone, ring, targ, stack, bound>>

UpldTex(t) == /\ refs[t] > 0 /\ Cardinality(live) < MaxNames
              /\ tex' = [tex EXCEPT ![t] = Uploaded(@)]
              /\ live' = live \cup {tex'[t]}
              /\ UNCHANGED <<gone, others>>

DeldTex(t) == /\ refs[t] > 0
              /\ Deld(t, NONE)
              /\ UNCHANGED <<gone, others>>

Share(t) == /\ refs[t] \in 1 .. MaxRefs - 1
            /\ refs' = [refs EXCEPT ![t] = @ + 1]
            /\ UNCHANGED <<live, gone, tex, ring, targ, stack, bound>>

\* A handle is let go.  The last one destroys the texture where it is: without
\* a context glDeleteTextures does nothing and the name stays with OpenGL.
Release(t, q, hasContext) ==
  IF refs'[t] > 0 \/ InRing(t, q) THEN UNCHANGED <<live, gone, tex>>
  ELSE IF hasContext THEN Deld(t, NoTex) /\ UNCHANGED gone
  ELSE /\ gone' = gone \cup ({tex[t]} \ {NONE})
       /\ tex' = [tex EXCEPT ![t] = NoTex]
       /\ UNCHANGED live

DropTex(t, hasContext) == /\ refs[t] > 0
                          /\ refs' = [refs EXCEPT ![t] = @ - 1]
                          /\ Release(t, ring, hasContext)
                          /\ UNCHANGED <<ring, targ, stack, bound>>

(* Payloads *)

\* The handle in the payload is a copy, or the caller's own, moved in; that one
\* goes with the payload when the ring is full and refuses it.
PushPayload(t) == \E verb \in Verbs, own \in BOOLEAN :
  /\ refs[t] > 0 /\ Len(ring) < RingCap
  /\ ring' = Append(ring, [verb |-> verb, ref |-> t])
  /\ refs' = [refs EXCEPT ![t] = IF own THEN @ - 1 ELSE @]
  /\ UNCHANGED <<live, gone, tex, targ, stack, bound>>

PushRefused(t, hasContext) == /\ refs[t] > 0 /\ Len(ring) = RingCap
                              /\ refs' = [refs EXCEPT ![t] = @ - 1]
                              /\ Release(t, ring, hasContext)
                              /\ UNCHANGED <<ring, targ, stack, bound>>

\* A frame resolves at most one payload; reld touches no name.  The handle of
\* the payload is let go here, on the render thread.
ResolvePayloads ==
  /\ ring # <<>> /\ Cardinality(live) < MaxNames
  /\ LET p == Head(ring)
         t == p.ref
         x == IF p.verb = "upld" THEN Uploaded(tex[t]) ELSE tex[t]
         last == refs[t] = 0 /\ ~InRing(t, Tail(ring))
     IN /\ live' = IF last THEN live \ {x}
                   ELSE live \cup ({x} \ {NONE})
        /\ tex' = [tex EXCEPT ![t] = IF last THEN NoTex ELSE x]
  /\ ring' = Tail(ring)
  /\ UNCHANGED <<gone, refs, targ, stack, bound>>

(* imm::Ren_target *)

\* upld ends with no framebuffer bound, whatever was bound before.
UpldTarg(g) ==
  /\ targ[g].tex = NONE /\ Cardinality(live) + 3 <= MaxNames
  /\ LET t == Fresh(live)
         f == Fresh(live \cup {t})
         r == Fresh(live \cup {t, f})
     IN /\ live' = live \cup {t, f, r}
        /\ targ' = [targ EXCEPT ![g] = [tex |-> t, fbo |-> f, rbo |-> r]]
  /\ bound' = NONE
  /\ UNCHANGED <<gone, tex, refs, ring, stack>>

\* Deleting the framebuffer that is bound binds none.
DeldTarg(g) ==
  /\ live' = live \ {targ[g].tex, targ[g].fbo, targ[g].rbo}
  /\ targ' = [targ EXCEPT ![g] = [tex |-> NONE, fbo |-> NONE, rbo |-> NONE]]
  /\ bound' = IF bound = targ[g].fbo THEN NONE ELSE bound
  /\ UNCHANGED <<gone, tex, refs, ring, stack>>

PushTarg(g) == /\ Len(stack) < MaxStack
               /\ stack' = Append(stack, g)
               /\ bound' = targ[g].fbo
               /\ UNCHANGED <<live, gone, tex, refs, ring, targ>>

PopTarg == /\ stack # <<>>
           /\ stack' = Front(stack)
           /\ bound' = IF stack' = <<>> THEN NONE ELSE targ[Last(stack')].fbo
           /\ UNCHANGED <<live, gone, tex, refs, ring, targ>>

TexNext == \/ \E t \in Texs :
                \/ NewTex(t) \/ UpldTex(t) \/ DeldTex(t) \/ Share(t)
                \/ \E u \in Texs \ {t} : MoveTex(t, u)
                \/ \E b \in BOOLEAN : DropTex(t, b) \/ PushRefused(t, b)
                \/ PushPayload(t)
           \/ ResolvePayloads

TargNext == \/ \E g \in Targs : UpldTarg(g) \/ DeldTarg(g) \/ PushTarg(g)
            \/ PopTarg

ANext == TexNext \/ TargNext

(* Properties *)

\* The names an object holds, with the field that holds them.
Held == {<<t, "tex", tex[t]>> : t \in Texs} \cup
        UNION {{<<g, f, targ[g][f]>> : f \in {"tex", "fbo", "rbo"}} : g \in Targs}
Names == {h \in Held : h[3] > NONE}

\* Every live name is held by exactly one field of one object, every name that
\* is held is live, and a name is left over only when its texture died away
\* from the GL thread; what is drawn goes to the target on top of the stack or
\* to the window, never to another target (immersive.hpp:45-216, 276-297,
\* 339-429).
NamesAreOwned ==
  /\ {h[3] : h \in Names} = live \ gone
  /\ Cardinality(Names) = Cardinality(live \ gone)
  /\ gone \subseteq live
  /\ bound \in {NONE} \cup
       (IF stack = <<>> THEN {} ELSE {targ[Last(stack)].fbo})
=============================================================================
