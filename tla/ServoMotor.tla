----------------------------- MODULE ServoMotor -----------------------------
(***************************************************************************)
(* ServoMotor: angles become duty cycles of a 50 Hz PWM channel, whose     *)
(* resolution the driver reports as a u16.  The arithmetic is u32 and ends *)
(* in a cast to u16.  The cast is modelled; that no intermediate result    *)
(* reaches 2^32 is a theorem (WifiServoProofs).                            *)
(***************************************************************************)
EXTENDS Integers

CONSTANT MaxDutyCycle    \* channel.max_duty_cycle()

TwoTo16 == 256 * 256

ASSUME DutyAssumption == MaxDutyCycle \in 1 .. TwoTo16 - 1

U16(n) == n % TwoTo16

MinDuty == (25 * MaxDutyCycle) \div 1000
MaxDuty == (125 * MaxDutyCycle) \div 1000

\* The offset of 0 degrees added to the whole duty range instead of the gap.
DutyOfWholeRange(deg) == U16(MinDuty + (deg * MaxDuty) \div 180)

Duty(deg) == U16(MinDuty + (deg * (MaxDuty - MinDuty)) \div 180)

OpenDuty == Duty(135)
ClosedDuty == Duty(180)
=============================================================================
