----------------------------- MODULE StatusLEDs -----------------------------
(***************************************************************************)
(* The lights of StatusLEDs.c and those who set them: the fault handler,   *)
(* Task_Amperes_Monitor, and a task in Error_Handler.  The lights hang on  *)
(* a chain of shift registers, loaded bit by bit and then pushed to the    *)
(* outputs; LEDbitmap and modFaultBitmap say what they should show.  A     *)
(* mutex is held from the change of a bitmap to the push; who does not get *)
(* it in time gives up.  The strobe and the heartbeat are pins of their    *)
(* own and left out.                                                       *)
(***************************************************************************)
EXTENDS Integers, Sequences, FiniteSets

CONSTANTS Faults,      (* the first fault, one of fault_bit_t               *)
          ModFaults    (* what mod_fault_num may be latched as              *)

StatusLEDsAssumption == ModFaults \subseteq Nat

VARIABLES
  LEDbitmap, modFaultBitmap,
  xLEDMutex,           (* who holds it                                      *)
  led_pc,              (* caller -> where its call stands                   *)
  request,             (* caller -> what it is to show                      *)
  script,              (* caller -> the request that comes next             *)
  first_fault, mod_fault_num,
  chain, outputs,      (* the bits in the shift registers, and shown        *)
  asked                (* history: what the calls that succeeded asked for  *)

calls == <<led_pc, request, script, first_fault, mod_fault_num>>
bitmaps == <<LEDbitmap, modFaultBitmap>>
lights == <<chain, outputs>>
ledVars == <<bitmaps, xLEDMutex, calls, lights, asked>>

(* led_mapping_t, in the order of their bits *)
Leds == <<"HEARTBEAT_LED", "FAULT_LED", "OVER_V_LED", "LOW_V_LED",
          "OVER_AMP_LED", "OVER_TEMP_LED", "CHARGING_LED", "VTEMP_IN_LED",
          "AMP_IN_LED", "WATCHDOG_ERR_LED">>
MOD_FAULT_BITS == 5
Places == Len(Leds) + MOD_FAULT_BITS + 1

(* updateStatusLEDs: the bit that is loaded n-th.  The module is loaded    *)
(* with its highest bit first, DEBUG_LED comes last.                       *)
BitToLoad(n, on, module) ==
  IF n <= Len(Leds) THEN Leds[n] \in on
  ELSE IF n = Places THEN "DEBUG_LED" \in on
  ELSE (module \div 2^(Places - 1 - n)) % 2 = 1

Picture(on, module) == [n \in 1..Places |-> BitToLoad(n, on, module)]

(* The light of a fault; most have none of their own. *)
LightOf ==
  [CELL_OVERVOLTAGE_FAULT |-> "OVER_V_LED", PACK_OVERVOLTAGE_FAULT |-> "OVER_V_LED",
   CELL_UNDERVOLTAGE_FAULT |-> "LOW_V_LED", PACK_UNDERVOLTAGE_FAULT |-> "LOW_V_LED",
   PACK_OVERCURRENT_CHARGING_FAULT |-> "OVER_AMP_LED",
   PACK_OVERCURRENT_DISCHARGING_FAULT |-> "OVER_AMP_LED",
   CELL_OVERTEMP_FAULT |-> "OVER_TEMP_LED", RTOS_WATCHDOG_ERROR |-> "WATCHDOG_ERR_LED"]

(* The calls each caller makes, in order, and the one it goes back to.     *)
(* handle_fault, which Fault_Loop repeats, looks whether mod_fault_num has *)
(* been latched and whether the fault has a light, or makes no call.       *)
NoCall == [op |-> "none"]
Clear == [op |-> "LEDs_clear"]
LED_set(led, state) == [op |-> "LED_set", led |-> led, state |-> state]
ModFault_set(m) == [op |-> "LEDsModFaultBitmap_set", module |-> m]

Latched == mod_fault_num >= 2^MOD_FAULT_BITS

HandlerScript ==
  <<Clear, LED_set("FAULT_LED", TRUE),
    IF Latched THEN ModFault_set(mod_fault_num) ELSE NoCall,
    IF first_fault \in DOMAIN LightOf THEN LED_set(LightOf[first_fault], TRUE) ELSE NoCall>>

Script ==
  [Task_FaultHandler |-> [calls |-> HandlerScript, loop |-> 3],
   Task_Amperes_Monitor |-> [calls |-> <<LED_set("CHARGING_LED", TRUE),
                                         LED_set("CHARGING_LED", FALSE)>>, loop |-> 1],
   Error_Handler |-> [calls |-> <<LED_set("FAULT_LED", TRUE), LED_set("DEBUG_LED", TRUE),
                                  LED_set("DEBUG_LED", FALSE)>>, loop |-> 2]]
LedCallers == DOMAIN Script

(* LEDs_init clears the lights. *)
Init ==
  /\ LEDbitmap = {} /\ modFaultBitmap = 0 /\ xLEDMutex = "nobody"
  /\ first_fault \in Faults /\ mod_fault_num = 0
  /\ script = [c \in LedCallers |-> 1]
  /\ led_pc = [c \in LedCallers |-> "idle"] /\ request = [c \in LedCallers |-> Clear]
  /\ chain = Picture({}, 0) /\ outputs = Picture({}, 0)
  /\ asked = [on |-> {}, module |-> 0]

-----------------------------------------------------------------------------
Goto(c, from, to) == led_pc[c] = from /\ led_pc' = [led_pc EXCEPT ![c] = to]
StaysInCall == UNCHANGED <<request, script, first_fault, mod_fault_num>>

(* A module's fault is latched once, with a bit beyond those shown. *)
LatchModFault ==
  /\ ~Latched /\ mod_fault_num' \in ModFaults
  /\ UNCHANGED <<bitmaps, xLEDMutex, led_pc, request, script, first_fault, lights, asked>>

Call(c) ==
  /\ request' = [request EXCEPT ![c] = Script[c].calls[script[c]]]
  /\ Goto(c, "idle", IF request'[c].op = "none" THEN "idle" ELSE "take")
  /\ script' = [script EXCEPT ![c] = IF @ = Len(Script[c].calls) THEN Script[c].loop
                                                                 ELSE @ + 1]
  /\ UNCHANGED <<bitmaps, xLEDMutex, first_fault, mod_fault_num, lights, asked>>

(* Mutant of Take: the call goes on without the mutex.                     *)
TakeOrNot(c) ==
  /\ Goto(c, "take", "change")
  /\ xLEDMutex' = c
  /\ UNCHANGED <<bitmaps, lights, asked>> /\ StaysInCall

Take(c) ==
  /\ Goto(c, "take", "change")
  /\ xLEDMutex = "nobody" /\ xLEDMutex' = c
  /\ UNCHANGED <<bitmaps, lights, asked>> /\ StaysInCall

(* LED_ERR after LED_TIMEOUT_MS; the callers ignore it. *)
TimesOut(c) ==
  /\ Goto(c, "take", "idle")
  /\ xLEDMutex # "nobody"
  /\ UNCHANGED <<bitmaps, xLEDMutex, lights, asked>> /\ StaysInCall

(* The change of the bitmap; LED_set clears the bit, then may set it. *)
Change(c) ==
  LET r == request[c] IN
  /\ Goto(c, "change", IF r.op = "LED_set" THEN "set" ELSE "load")
  /\ LEDbitmap' = CASE r.op = "LEDs_clear" -> {}
                    [] r.op = "LED_set" -> LEDbitmap \ {r.led}
                    [] OTHER -> LEDbitmap
  /\ modFaultBitmap' = CASE r.op = "LEDs_clear" -> 0
                         [] r.op = "LEDsModFaultBitmap_set" -> r.module % 2^MOD_FAULT_BITS
                         [] OTHER -> modFaultBitmap
  /\ UNCHANGED <<xLEDMutex, lights, asked>> /\ StaysInCall

SetBit(c) ==
  /\ Goto(c, "set", "load")
  /\ LEDbitmap' = LEDbitmap \union {l \in {request[c].led} : request[c].state}
  /\ UNCHANGED <<modFaultBitmap, xLEDMutex, lights, asked>> /\ StaysInCall

(* updateStatusLEDs loads the chain bit by bit; the bitmaps it reads and   *)
(* the chain are of the caller that holds the mutex alone.                 *)
Load(c) ==
  /\ Goto(c, "load", "push")
  /\ chain' = Picture(LEDbitmap, modFaultBitmap)
  /\ UNCHANGED <<bitmaps, xLEDMutex, outputs, asked>> /\ StaysInCall

Push(c) ==
  /\ Goto(c, "push", "give")
  /\ outputs' = chain
  /\ UNCHANGED <<bitmaps, xLEDMutex, chain, asked>> /\ StaysInCall

Asked(r) ==
  CASE r.op = "LEDs_clear" -> [on |-> {}, module |-> 0]
    [] r.op = "LED_set" -> [asked EXCEPT !.on = IF r.state THEN @ \union {r.led}
                                                           ELSE @ \ {r.led}]
    [] OTHER -> [asked EXCEPT !.module = r.module]

Give(c) ==
  /\ Goto(c, "give", "idle")
  /\ xLEDMutex' = "nobody"
  /\ asked' = Asked(request[c])
  /\ UNCHANGED <<bitmaps, lights>> /\ StaysInCall

CallerStep(c) ==
  Call(c) \/ Take(c) \/ TimesOut(c) \/ Change(c) \/ SetBit(c) \/ Load(c) \/ Push(c) \/ Give(c)

Next == LatchModFault \/ \E c \in LedCallers : CallerStep(c)

Spec == Init /\ [][Next]_ledVars

-----------------------------------------------------------------------------
(* The variables stay in their types. *)
TypeOK ==
  /\ LEDbitmap \subseteq {Leds[n] : n \in DOMAIN Leds} \union {"DEBUG_LED"}
  /\ modFaultBitmap \in 0..(2^MOD_FAULT_BITS - 1)
  /\ xLEDMutex \in LedCallers \union {"nobody"}
  /\ Len(chain) = Places /\ Len(outputs) = Places

(* Whenever nobody is changing them, the lights show exactly what the      *)
(* calls that succeeded, in their order, have asked for: no caller undoes  *)
(* the bit of another, and none shows a state that is half of each.        *)
LightsAreAsAsked ==
  xLEDMutex = "nobody" => outputs = Picture(asked.on, asked.module)
=============================================================================
