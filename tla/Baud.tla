-------------------------------- MODULE Baud --------------------------------
(***************************************************************************)
(* The speeds of library/Serial.cpp: rate and divisor, 255 where the        *)
(* standard UART has none.                                                  *)
(***************************************************************************)
EXTENDS Integers, SequencesExt

supportedBaudRates == <<
    <<2400, 48>>, <<4800, 24>>, <<9600, 12>>, <<19200, 255>>, <<38400, 255>>,
    <<57600, 2>>, <<115200, 1>>, <<230400, 255>>, <<460800, 255>>, <<921600, 255>>>>

Rates == {supportedBaudRates[i][1] : i \in DOMAIN supportedBaudRates}

(* The rates the answer may be, 0 for "Unknown".  Of a word that is not a   *)
(* number the function returns a pointer it never set.                      *)
baudRateMatchString(a) ==
    LET i == SelectInSeq(supportedBaudRates, LAMBDA b :
                 b[1] = a \/ b[1] \div 1000 = a \/ (b[1] + 500) \div 1000 = a)
    IN  IF a = 0 THEN Rates \cup {0}
        ELSE {IF i = 0 THEN 0 ELSE supportedBaudRates[i][1]}

Divisor(rate) ==
    supportedBaudRates[SelectInSeq(supportedBaudRates, LAMBDA b : b[1] = rate)][2]
=============================================================================
