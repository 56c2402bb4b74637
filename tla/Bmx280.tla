------------------------------- MODULE Bmx280 -------------------------------
(* The drivers of the BMP280 and the BME280 (rgh/ucp/sns-drv).  A measurement *)
(* is the number of the conversion it comes from.  A pressure or a humidity  *)
(* is compensated with _fine_temp, which the compensation of a temperature   *)
(* leaves behind: the models keep which conversion each part came from, and  *)
(* which calibration words it was made with, in place of the arithmetic.     *)
(* The sensor and the I2C bus are external.  Every transfer may fail; a call *)
(* that fails in its only transfer does nothing and has no step here.        *)
EXTENDS Integers, Sequences

CONSTANTS MaxConversions  \* bound on the conversions of the sensor

VARIABLES chip,  \* "bmp" or "bme"
          mode,  \* of the sensor: "sleep", "forced" or "normal"
          data,  \* the conversion in the data registers, 0 before the first
          cal,   \* the groups of calibration words loaded: "TP", "H1", "H"
          ready, \* history: load_calibs has returned RGH_OK
          fine,  \* _fine_temp: where it comes from
          shot,  \* the one shot that sleeps: the conversion it waits for, or 0
          out    \* what the last load gave its caller

bmxvars == <<chip, mode, data, cal, ready, fine, shot, out>>

Quantities == IF chip = "bme" THEN {"temp", "press", "hum"}
              ELSE {"temp", "press"}
\* A compensated value: the conversion it is of, the _fine_temp it was made
\* with, and whether its own calibration words were loaded.
Reading(n, f, c) == [of |-> n, fine |-> f, cal |-> c]
Never == [of |-> 0, cal |-> FALSE]
Unset == Reading(-1, Never, FALSE)    \* what the caller had there stays
Invalid == Reading(-2, Never, FALSE)  \* INVALID_PRESSURE
Dry == Reading(-3, Never, FALSE)      \* zero, as a humidity may well be
NoReading == [q \in {"temp", "press", "hum"} |-> Unset]

BInit == /\ chip \in {"bmp", "bme"} /\ mode = "sleep" /\ data = 0
         /\ cal = {} /\ ready = FALSE /\ fine = Never /\ shot = 0
         /\ out = NoReading

(* The sensor *)

\* A conversion ends and its results replace the last ones.
Convert == /\ mode # "sleep" /\ data < MaxConversions
           /\ data' = data + 1
           /\ mode' = IF mode = "forced" THEN "sleep" ELSE mode
           /\ UNCHANGED <<chip, cal, ready, fine, shot, out>>

StoreCtrlMeas(m) == mode' = m
SetMode == /\ shot = 0
           /\ \E m \in {"sleep", "normal"} : StoreCtrlMeas(m)
           /\ UNCHANGED <<chip, data, cal, ready, fine, shot, out>>

(* Calibration *)

\* The bytes are read in one transfer for a BMP280, in two more for a BME280;
\* the first that fails ends the call and what was stored stays.
CalibBmp == <<"TP">>
CalibBme == <<"TP", "H1", "H">>
LoadCalibs ==
  /\ shot = 0
  /\ LET reads == IF chip = "bme" THEN CalibBme ELSE CalibBmp
     IN \E n \in 0 .. Len(reads) :
          /\ cal' = cal \cup {reads[k] : k \in 1 .. n}
          /\ ready' = (ready \/ n = Len(reads))
  /\ UNCHANGED <<chip, mode, data, fine, shot, out>>

(* Compensation *)

\* What _fine_temp becomes with the raw temperature of the registers, and the
\* temperature that is returned with it.
FineTemp == [of |-> data, cal |-> "TP" \in cal]
CalibRawTemperature == Reading(data, FineTemp, FineTemp.cal)

\* No calibration makes the divisor zero, and the pressure is marked invalid.
CalibRawPressure(f) ==
  IF "TP" \in cal THEN Reading(data, f, TRUE) ELSE Invalid

\* Without dig_H2 the product that is the humidity is zero.
CalibRawHumidity(f) ==
  IF "H" \in cal THEN Reading(data, f, "H1" \in cal) ELSE Dry

\* What a load fills in of what it is asked for.
Filled(asked, press, hum) ==
  [temp |-> IF "temp" \in asked THEN CalibRawTemperature ELSE Unset,
   press |-> IF "press" \in asked THEN press ELSE Unset,
   hum |-> IF "hum" \in asked THEN hum ELSE Unset]

\* load_data of the BMP280: the temperature is compensated only if it is
\* asked for, and first.
LoadedBmp(asked) ==
  LET f == IF "temp" \in asked THEN FineTemp ELSE fine
  IN [fine |-> f, out |-> Filled(asked, CalibRawPressure(f), Unset)]

\* Mutant: the humidity is compensated before the temperature.
LoadedBmeLate(asked) ==
  [fine |-> FineTemp,
   out |-> Filled(asked, CalibRawPressure(FineTemp), CalibRawHumidity(fine))]

\* load_data of the BME280: the temperature is compensated in any case.
LoadedBme(asked) ==
  [fine |-> FineTemp,
   out |-> Filled(asked, CalibRawPressure(FineTemp),
                  CalibRawHumidity(FineTemp))]

Load(asked, given) ==
  LET l == IF chip = "bme" THEN LoadedBme(asked) ELSE LoadedBmp(asked)
  IN /\ fine' = l.fine
     /\ out' = [q \in DOMAIN NoReading |->
                  IF q \in given THEN l.out[q] ELSE Unset]
     /\ UNCHANGED <<chip, mode, data, cal, ready>>

\* The integer form takes only what the caller asks for; the float form and
\* the ones that return tuples take everything and hand on what is asked for.
LoadData == /\ shot = 0
            /\ \E asked \in SUBSET Quantities : Load(asked, asked)
            /\ UNCHANGED shot
LoadDataF == /\ shot = 0
             /\ \E given \in SUBSET Quantities : Load(Quantities, given)
             /\ UNCHANGED shot

\* oneshot_1xf starts a conversion and sleeps longer than one takes.  A BME280
\* is told first how to sample humidity.
Oneshot == /\ shot = 0 /\ data < MaxConversions
           /\ StoreCtrlMeas("forced")
           /\ shot' = data + 1
           /\ UNCHANGED <<chip, data, cal, ready, fine, out>>
OneshotLoad == /\ shot # 0 /\ mode = "sleep"
               /\ shot' = 0
               /\ \/ Load(Quantities, Quantities)
                  \/ UNCHANGED <<chip, mode, data, cal, ready, fine, out>>

BNext == \/ Convert \/ SetMode \/ LoadCalibs \/ LoadData \/ LoadDataF
         \/ Oneshot \/ OneshotLoad

(* Properties *)

\* A pressure that is not marked invalid, and a humidity that is not zero,
\* come from the conversion the call read, and were made with all of their own
\* calibration words and with the calibrated temperature of that conversion,
\* whichever of the transfers of load_calibs and of the loads have failed; the
\* only exception is a pressure asked of a BMP280 without its temperature.
\* Once load_calibs has returned RGH_OK no pressure is invalid and no humidity
\* zero for want of calibration, and a temperature is calibrated; before that,
\* such a zero looks like a humidity.  The sleep of a one shot yields the
\* conversion it started (bmp280.hpp:62-102, 139-191; bme280.hpp:43-81, 83-142).
MeasuredTogether ==
  [][LET whole(v) == /\ v.of = data /\ v.cal
                     /\ v.fine = [of |-> data, cal |-> TRUE]
     IN out' # out =>
          /\ out'.press \notin {Unset, Invalid} =>
               whole(out'.press) \/ (chip = "bmp" /\ out'.temp = Unset)
          /\ out'.hum \notin {Unset, Dry} => whole(out'.hum)
          /\ ready => /\ out'.press # Invalid /\ out'.hum # Dry
                      /\ out'.temp # Unset => whole(out'.temp)
          /\ shot # 0 => out'.temp.of = shot]_bmxvars
=============================================================================
