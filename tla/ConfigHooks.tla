----------------------------- MODULE ConfigHooks -----------------------------
(***************************************************************************)
(* What wlEglChooseConfigHook and wlEglGetConfigAttribHook do to config    *)
(* attributes.  The driver's configs have no window support of their own  *)
(* on this platform: a Wayland window is drawn through an EGLStream.  So    *)
(* the choose hook rewrites the application's EGL_SURFACE_TYPE requests    *)
(* from EGL_WINDOW_BIT to EGL_STREAM_BIT_KHR before the driver matches     *)
(* them, and the attribute hook reports EGL_WINDOW_BIT for exactly the     *)
(* configs that have EGL_STREAM_BIT_KHR.                                   *)
(*                                                                         *)
(* An attribute list (up to EGL_NONE) is a sequence of [name, value]       *)
(* records.  A surface-type value is the set of its bits; "REST" stands    *)
(* for all the bits no hook looks at, which an application sets only as    *)
(* part of EGL_DONT_CARE (-1, every bit set).  Every other attribute is    *)
(* one "OTHER" name with one value, which the hooks copy as it is.         *)
(***************************************************************************)
EXTENDS Naturals, Sequences
LOCAL INSTANCE SequencesExt

(* The surface-type bits that matter here.                                 *)
SurfaceBits == {"WINDOW", "PBUFFER", "STREAM"}

(* EGL_DONT_CARE.                                                           *)
DontCare == SurfaceBits \cup {"REST"}

SurfaceValues == (SUBSET SurfaceBits) \cup {DontCare}

Attribs ==
  [name : {"SURFACE_TYPE"}, value : SurfaceValues]
  \cup [name : {"OTHER"}, value : {"v"}]

(* Bound on the attribute pairs of an application's list.                  *)
MaxAttribs == 3

AttribLists == UNION {[1..n -> Attribs] : n \in 0..MaxAttribs}

(* The test below without its EGL_DONT_CARE exception.                     *)
BuggyAsksForWindow(a) == a.name = "SURFACE_TYPE" /\ "WINDOW" \in a.value

(* A SURFACE_TYPE pair that asks for a window: not EGL_DONT_CARE (whose    *)
(* all-ones value has the window bit) and with EGL_WINDOW_BIT set.         *)
AsksForWindow(a) ==
  a.name = "SURFACE_TYPE" /\ a.value # DontCare /\ "WINDOW" \in a.value

(* The list wlEglChooseConfigHook passes to the driver's eglChooseConfig: *)
(* a copy in which, if the application gave EGL_SURFACE_TYPE, every such   *)
(* pair asking for a window asks for a stream instead, and otherwise the   *)
(* default (EGL_WINDOW_BIT) is made explicit as EGL_STREAM_BIT_KHR at the  *)
(* end.  (A failed malloc returns EGL_BAD_ALLOC before the driver runs.)   *)
ChooseConfigAttribs(attribs) ==
  IF \E i \in DOMAIN attribs : attribs[i].name = "SURFACE_TYPE"
  THEN [i \in DOMAIN attribs |->
          IF AsksForWindow(attribs[i])
          THEN [attribs[i] EXCEPT !.value = (@ \ {"WINDOW"}) \cup {"STREAM"}]
          ELSE attribs[i]]
  ELSE Append(attribs, [name |-> "SURFACE_TYPE", value |-> {"STREAM"}])

(* The value wlEglGetConfigAttribHook returns for attribute name when the  *)
(* driver returned value: for EGL_SURFACE_TYPE, the window bit follows the *)
(* stream bit.                                                              *)
GetConfigAttrib(name, value) ==
  IF name = "SURFACE_TYPE"
  THEN IF "STREAM" \in value THEN value \cup {"WINDOW"} ELSE value \ {"WINDOW"}
  ELSE value

-----------------------------------------------------------------------------
(* EGL's selection rule for EGL_SURFACE_TYPE (EGL 1.5, 3.4.1.2), the       *)
(* reference the hooks are checked against: the request is the last       *)
(* value given, EGL_WINDOW_BIT by default; a config matches when it has    *)
(* every requested bit, and EGL_DONT_CARE matches every config.            *)
RequestedSurfaceType(attribs) ==
  LET i == SelectLastInSeq(attribs, LAMBDA a : a.name = "SURFACE_TYPE")
  IN IF i = 0 THEN {"WINDOW"} ELSE attribs[i].value

SurfaceTypeMatches(configBits, requested) ==
  requested = DontCare \/ requested \subseteq configBits

(* Whether the driver returns a config for an application's eglChooseConfig *)
(* exactly when the EGL_SURFACE_TYPE the application then reads for that   *)
(* config with eglGetConfigAttrib satisfies its request, for every driver  *)
(* config and every list of up to MaxAttribs pairs, with or without        *)
(* EGL_SURFACE_TYPE, repeated or EGL_DONT_CARE.                            *)
HooksAgree ==
  \A bits \in SUBSET SurfaceBits, attribs \in AttribLists :
    SurfaceTypeMatches(bits, RequestedSurfaceType(ChooseConfigAttribs(attribs)))
    = SurfaceTypeMatches(GetConfigAttrib("SURFACE_TYPE", bits),
                         RequestedSurfaceType(attribs))
=============================================================================
