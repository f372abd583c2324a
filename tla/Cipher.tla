------------------------------- MODULE Cipher -------------------------------
(***************************************************************************)
(* The cipher (cipher/aesgsm.go) as terms: a ciphertext is what was put    *)
(* into it, and opens with the key and the nonce it was made with and with *)
(* no others; a checksum is what it was taken of.  Random bytes are named  *)
(* by who drew them and what for, so no two draws are equal.  A term is a  *)
(* tuple that begins with its kind.                                        *)
(***************************************************************************)

Fail == <<"fail">>                              \* an error is returned

Typed(pwd)           == <<"typed", pwd>>        \* the bytes of a password
Zeros                == <<"zeros">>             \* a secret after Clear
Random(owner, use)   == <<"random", owner, use>>

GetKEKWithSalt(pwd, salt) == <<"argon2id", pwd, salt>>

Encrypt(cek, nonce, raw) == <<"gcm", cek, nonce, raw>>

Decrypt(cek, nonce, enc) ==
    IF enc[1] = "gcm" /\ enc[2] = cek /\ enc[3] = nonce THEN enc[4] ELSE Fail

Wrap(kek, nonce, cek)   == Encrypt(kek, nonce, cek)
UnWrap(kek, nonce, wek) == Decrypt(kek, nonce, wek)

GetHMAC(key, data) == <<"hmac", key, data>>
GetSHA(data)       == <<"sha", data>>
=============================================================================
