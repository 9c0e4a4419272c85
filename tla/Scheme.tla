------------------------------- MODULE Scheme -------------------------------
(***************************************************************************)
(* SimpleScheme (elpa/types.h): the one machine word every element of the  *)
(* language is.  A word below UNDEF is a byte with a display tag in its    *)
(* second octet, UNDEF itself is the undefined element, and a larger word  *)
(* is the address of a cell.  A null cell pointer is the word 0, so it     *)
(* would read as byte 0 were it ever converted to an element.              *)
(***************************************************************************)
EXTENDS Naturals

UNDEF == 65536   \* 256 * 256

Null == 0        \* pcell_t( 0 )

IsByte(e)  == e < UNDEF
IsUndef(e) == e = UNDEF
IsPcell(e) == e > UNDEF

NewByte(value, tag) == 256 * tag + value

ByteValue(b) == b % 256
ByteTag(b)   == (b \div 256) % 256
=============================================================================
