---------------------------- MODULE ItchMessages ----------------------------
(***************************************************************************)
(* The messages of a NASDAQ ITCH capture as src/replay/ knows them: the    *)
(* fields of each decoded type (data/DecodedMessageTypes.hpp), the bytes   *)
(* each takes (utils/BinaryMessageDecoders.cpp) and how a field is read    *)
(* from them (utils/BinaryDecodeHelpers.cpp).                              *)
(*                                                                         *)
(* Every field is a number: a character is its byte, a symbol the number   *)
(* its eight bytes spell.                                                  *)
(***************************************************************************)
EXTENDS Integers, SequencesExt

CONSTANT Base      \* how many values a byte has: 256, fewer in small models

ASSUME BytesTellApart == Base \in Nat \ {0, 1}

\* The types of message that are decoded.
DecodedTypes == {"S", "R", "A", "F", "E", "C", "X", "D", "U"}

\* What every message starts with: its fields and their widths in bytes.
Header == <<<<"stockLocate", 2>>, <<"trackingNumber", 2>>, <<"timestamp", 6>>>>

OrderNumber == <<<<"orderReferenceNumber", 8>>>>

AddFields ==
    OrderNumber \o <<<<"buySellIndicator", 1>>, <<"shares", 4>>, <<"stock", 8>>,
                     <<"price", 4>>>>

ExecutionFields == OrderNumber \o <<<<"executedShares", 4>>, <<"matchNumber", 8>>>>

DirectoryFields ==
    <<<<"stock", 8>>, <<"marketCategory", 1>>, <<"financialStatusIndicator", 1>>,
      <<"roundLotSize", 4>>, <<"roundLotsOnly", 1>>, <<"issueClassification", 1>>,
      <<"issueSubType", 2>>, <<"authenticity", 1>>, <<"shortSaleThresholdIndicator", 1>>,
      <<"ipoFlag", 1>>, <<"luldReferencePriceTier", 1>>, <<"etpFlag", 1>>,
      <<"etpLeverageFactor", 4>>, <<"inverseIndicator", 1>>>>

ReplaceFields ==
    <<<<"originalOrderReferenceNumber", 8>>, <<"newOrderReferenceNumber", 8>>,
      <<"shares", 4>>, <<"price", 4>>>>

\* Slip: the attribution at the end of an add message is not read.
FieldsWithoutMPID(type) ==
    Header \o CASE type = "S" -> <<<<"eventCode", 1>>>>
                [] type = "R" -> DirectoryFields
                [] type \in {"A", "F"} -> AddFields
                [] type = "E" -> ExecutionFields
                [] type = "C" -> ExecutionFields \o <<<<"printable", 1>>, <<"executionPrice", 4>>>>
                [] type = "X" -> OrderNumber \o <<<<"cancelledShares", 4>>>>
                [] type = "D" -> OrderNumber
                [] type = "U" -> ReplaceFields

\* The fields of a type in the order in which its decoder reads them.
Fields(type) ==
    Header \o CASE type = "S" -> <<<<"eventCode", 1>>>>
                [] type = "R" -> DirectoryFields
                [] type = "A" -> AddFields
                [] type = "F" -> AddFields \o <<<<"attribution", 4>>>>
                [] type = "E" -> ExecutionFields
                [] type = "C" -> ExecutionFields \o <<<<"printable", 1>>, <<"executionPrice", 4>>>>
                [] type = "X" -> OrderNumber \o <<<<"cancelledShares", 4>>>>
                [] type = "D" -> OrderNumber
                [] type = "U" -> ReplaceFields

\* The bytes that the first n fields of a type take.
WidthBefore(type, n) ==
    SumFunctionOnSet([i \in DOMAIN Fields(type) |-> Fields(type)[i][2]], 1 .. n)

BodyWidth(type) == WidthBefore(type, Len(Fields(type)))

-----------------------------------------------------------------------------

\* How many numbers n bytes tell apart.
Power[n \in Nat] == IF n = 0 THEN 1 ELSE Base * Power[n - 1]

\* The i-th byte of a number that takes so many bytes.
ByteOf(value, width, i) == (value \div Power[width - i]) % Base

\* Slip: the bytes that are there are taken for the whole number.
ReadAsWhole(value, width, there) ==
    SumFunctionOnSet([i \in 1 .. there |-> ByteOf(value, width, i) * Power[there - i]], 1 .. there)

\* What is read of a number of which only the first bytes are there: the
\* buffer is zero beforehand, and the first byte is the highest.
ReadBigEndian(value, width, there) ==
    SumFunctionOnSet([i \in 1 .. width |-> ByteOf(value, width, i) * Power[width - i]], 1 .. there)

FieldNames(type) == {Fields(type)[n][1] : n \in DOMAIN Fields(type)}

\* A message has a number in each of its fields that fits its bytes.
IsMessage(type, message) ==
    /\ message \in [FieldNames(type) -> Nat]
    /\ \A n \in DOMAIN Fields(type) : message[Fields(type)[n][1]] < Power[Fields(type)[n][2]]

\* Where a decoder reads a field.
Position(type, name) == CHOOSE n \in DOMAIN Fields(type) : Fields(type)[n][1] = name

\* The message that is decoded when so many bytes of its body are there.
DecodedFrom(type, message, bytes) ==
    LET Read(n, name) ==
            LET width == Fields(type)[n][2]
                left  == bytes - WidthBefore(type, n - 1)
                there == IF left < 0 THEN 0 ELSE IF left > width THEN width ELSE left
            IN  ReadBigEndian(message[name], width, there)
    IN  [name \in FieldNames(type) |-> Read(Position(type, name), name)]

=============================================================================
