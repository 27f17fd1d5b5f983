--------------------------- MODULE MCAddressParse ---------------------------
(* Two-byte addresses (four digits) and bodies of up to five bytes: short *)
(* and full-length inputs, one byte too many, and a two-byte character at  *)
(* every offset of a body.                                                 *)
EXTENDS AddressParse

MCAddressLength == 2
MCMaxBody == 2 * MCAddressLength + 1
=============================================================================
