---------------------------- MODULE ObjectAccess ----------------------------
(***************************************************************************)
(* Typed access to the objects of a drive.  A value the application writes *)
(* is narrowed once by MotorDrive::writeObject, staged as an int64, and    *)
(* narrowed again to the type of the mapped object when the command image  *)
(* is sent; a value of the drive is narrowed by decodeFeedbackObject, the  *)
(* cached readers and MotorDrive::readObject.  These are the casts.        *)
(***************************************************************************)
EXTENDS Integers

ObjectDataType == {"U8", "I8", "U16", "I16", "U32", "I32"}
SignedTypes == {"I8", "I16", "I32"}

Half(type) ==
    IF type \in {"U8", "I8"} THEN 128
    ELSE IF type \in {"U16", "I16"} THEN 128 * 256 ELSE 128 * 256 * 256 * 256
Span(type) == 2 * Half(type)

Unsigned(type) ==
    IF type \in {"U8", "I8"} THEN "U8" ELSE IF type \in {"U16", "I16"} THEN "U16" ELSE "U32"

Values(type) ==
    IF type \in SignedTypes THEN (-Half(type)) .. Half(type) - 1 ELSE 0 .. Span(type) - 1

\* static_cast: what is left of a value in two's complement.
Cast(type, v) ==
    LET u == v % Span(type)
    IN IF type \in SignedTypes /\ u >= Half(type) THEN u - Span(type) ELSE u
-----------------------------------------------------------------------------
(* The objects of the driver, by how its mapping carries them.             *)

\* Objects this firmware takes over PDO only, and those a TPDO may serve.
isPdoOnlyCommand == {"controlword", "target_position", "target_velocity", "target_torque"}
Cached == [U8 |-> {"modes_of_operation_display"},
           U16 |-> {"statusword", "torque_actual_value", "error_code"},
           I32 |-> {"position_actual_value", "velocity_actual_value"},
           U32 |-> {}]

\* Where a write goes: into the command image if an active RPDO maps the
\* object, nowhere if only a PDO could carry it, else over SDO.
writeStagedOrSdo(object, rpdo) ==
    IF object \in rpdo THEN "staged"
    ELSE IF object \in isPdoOnlyCommand THEN "dropped" ELSE "sdo"

\* Where a read comes from; I8 and I16 are read as their unsigned types.
Source(object, type, tpdo, rpdo_seen) ==
    LET reader == IF type = "I32" THEN "I32" ELSE Unsigned(type)
    IN IF rpdo_seen /\ object \in tpdo /\ object \in Cached[reader]
       THEN "snapshot" ELSE "sdo"
-----------------------------------------------------------------------------
(* The values.                                                             *)

\* MotorDrive::writeObject: signed values of one and two bytes are passed on
\* as unsigned, the others as they are.
writeObject(type, v) == Cast(IF type = "I32" THEN "I32" ELSE Unsigned(type), v)

\* writeMappedObject: the staged value in the frame of an object of type `o'.
writeMappedObject(o, staged) == Cast(o, staged)

\* readMappedObject, decodeFeedbackObject and readU8, readU16 or readI32, for
\* a feedback object whose field has the type of the mapped object.
readCached(o, raw) ==
    LET field == Cast(o, raw)
    IN Cast(IF o = "I32" THEN "I32" ELSE Unsigned(o), field)
\* MotorDrive::readObject: what the reader returned, as the type asked for.
readObject(type, value) == Cast(type, value)
==============================================================================
