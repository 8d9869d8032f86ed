----------------------------- MODULE Conversion -----------------------------
(***************************************************************************)
(* The heights of points, which the iterations of both loops of a step ask *)
(* the map for.  A point is converted from UTM to latitude and longitude   *)
(* by libmgrs, which keeps the parameters of the projection and the range  *)
(* of its coordinates in static variables: every conversion sets them      *)
(* again and then reads them, while other threads do the same.  The map    *)
(* has one zone and hemisphere by then, so that the threads set the        *)
(* parameters to what they are; the range is computed in place.  Lengths   *)
(* are in metres.                                                          *)
(***************************************************************************)
EXTENDS Integers

CONSTANTS
  Threads,
  MaxHeights,   \* bound on the heights a thread asks for
  MinEasting, MaxEasting,  \* MIN_EASTING and MAX_EASTING of utm.c
  NorthEnd, SouthEnd,      \* northings at its MAX_LAT and MIN_LAT
  FalseEasting,
  SouthNorthing,           \* false northing of the southern hemisphere
  PoleX, PoleY,            \* the point next to the pole and 90 degrees east of
  EquatorX                 \* the central meridian, and the one on the equator

\* The eastings that UTM takes are nearer to the false easting than that is to
\* the axis, and the pole is beyond the northings: what the theorem takes the
\* constants to be.
ConvAssumption ==
  /\ {MinEasting, MaxEasting, NorthEnd, SouthEnd, FalseEasting, SouthNorthing,
      PoleX, PoleY, EquatorX} \subseteq Nat
  /\ MinEasting <= MaxEasting
  /\ MaxEasting <= 2 * FalseEasting + PoleX
  /\ PoleX <= EquatorX
  /\ NorthEnd <= PoleY
  /\ SouthEnd <= SouthNorthing

VARIABLES
  hemisphere,      \* of the map, after the corners were converted
  deltaE, deltaN,  \* TranMerc_Delta_Easting, TranMerc_Delta_Northing
  at,              \* where a thread's conversion is
  point,           \* the point it converts: easting and northing
  old,             \* the delta it has read to increment it
  heights,         \* heights it has got
  exited           \* get_height has met an error and called exit

convVars == <<hemisphere, deltaE, deltaN, at, point, old, heights, exited>>

FalseNorthing == IF hemisphere = "S" THEN SouthNorthing ELSE 0

\* The ends of what Convert_UTM_To_Geodetic accepts.
Points ==
  {MinEasting, MaxEasting} \X
    (IF hemisphere = "S" THEN {SouthEnd, SouthNorthing} ELSE {0, NorthEnd})

\* Where Convert_Geodetic_To_Transverse_Mercator sees the points 90 degrees
\* east of the central meridian: next to the pole, and on the equator.  The
\* false origin is part of it.
PoleEasting == FalseEasting + PoleX
PoleNorthing == FalseNorthing + PoleY
EquatorEasting == FalseEasting + EquatorX

ConvInit ==
  /\ hemisphere \in {"N", "S"}
  /\ deltaE = EquatorEasting + 1
  /\ deltaN = PoleNorthing + 1
  /\ at = [t \in Threads |-> "idle"]
  /\ point = [t \in Threads |-> <<0, 0>>]
  /\ old = [t \in Threads |-> 0]
  /\ heights = [t \in Threads |-> 0]
  /\ exited = FALSE

Go(t, from, to) ==
  /\ ~exited
  /\ at[t] = from
  /\ at' = [at EXCEPT ![t] = to]

GetHeight(t) ==
  /\ Go(t, "idle", "poleNorthing")
  /\ heights[t] < MaxHeights
  /\ \E p \in Points : point' = [point EXCEPT ![t] = p]
  /\ UNCHANGED <<hemisphere, deltaE, deltaN, old, heights, exited>>

\* Set_Transverse_Mercator_Parameters lets the forward conversion write the
\* range, twice, and then increments it.
SetDelta(t) ==
  /\ \/ /\ Go(t, "poleNorthing", "poleEasting")
        /\ deltaN' = PoleNorthing
        /\ UNCHANGED deltaE
     \/ /\ Go(t, "poleEasting", "equatorEasting")
        /\ deltaE' = PoleEasting
        /\ UNCHANGED deltaN
     \/ /\ Go(t, "equatorEasting", "readNorthing")
        /\ deltaE' = EquatorEasting
        /\ UNCHANGED deltaN
  /\ UNCHANGED <<hemisphere, point, old, heights, exited>>

ReadDelta(t) ==
  /\ \/ Go(t, "readNorthing", "incNorthing") /\ old' = [old EXCEPT ![t] = deltaN]
     \/ Go(t, "readEasting", "incEasting") /\ old' = [old EXCEPT ![t] = deltaE]
  /\ UNCHANGED <<hemisphere, deltaE, deltaN, point, heights, exited>>

IncDelta(t) ==
  /\ \/ Go(t, "incNorthing", "readEasting") /\ deltaN' = old[t] + 1 /\ UNCHANGED deltaE
     \/ Go(t, "incEasting", "checkEasting") /\ deltaE' = old[t] + 1 /\ UNCHANGED deltaN
  /\ old' = [old EXCEPT ![t] = 0]
  /\ UNCHANGED <<hemisphere, point, heights, exited>>

\* The range tests of Convert_Transverse_Mercator_To_Geodetic.
InRange(x, origin, delta) == origin - delta <= x /\ x <= origin + delta

CheckEasting(t) ==
  /\ Go(t, "checkEasting", "checkNorthing")
  /\ exited' = ~InRange(point[t][1], FalseEasting, deltaE)
  /\ UNCHANGED <<hemisphere, deltaE, deltaN, point, old, heights>>

CheckNorthing(t) ==
  /\ Go(t, "checkNorthing", "idle")
  /\ exited' = ~InRange(point[t][2], FalseNorthing, deltaN)
  /\ heights' = [heights EXCEPT ![t] = @ + 1]
  /\ point' = [point EXCEPT ![t] = <<0, 0>>]
  /\ UNCHANGED <<hemisphere, deltaE, deltaN, old>>

\* All heights are known.
ConvDone ==
  /\ \A t \in Threads : at[t] = "idle" /\ heights[t] = MaxHeights
  /\ UNCHANGED convVars

ConvNext ==
  \/ \E t \in Threads : \/ GetHeight(t) \/ SetDelta(t) \/ ReadDelta(t) \/ IncDelta(t)
                        \/ CheckEasting(t) \/ CheckNorthing(t)
  \/ ConvDone

ConvSpec == ConvInit /\ [][ConvNext]_convVars

-----------------------------------------------------------------------------
\* A conversion of a point that UTM covers succeeds, and get_height does not
\* end the program, whatever part of the range other threads have rewritten
\* when it is tested.
ConversionsSucceed == ~exited

\* The range is never narrower than at the pole, not even in a thread's register
\* between the read and the write of an increment.  (It need not recover: when
\* the increment of one thread overwrites the store of another, the range stays
\* that of the pole after both are through.)
RangeIsWide ==
  /\ deltaE >= PoleEasting
  /\ deltaN >= PoleNorthing
  /\ \A t \in Threads :
       /\ at[t] = "incEasting" => old[t] >= PoleEasting
       /\ at[t] = "incNorthing" => old[t] >= PoleNorthing
=============================================================================
