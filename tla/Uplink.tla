------------------------------- MODULE Uplink -------------------------------
(***************************************************************************)
(* The network interface: Wi-Fi (wifi.cpp) or the W5500 (ethernet.cpp),    *)
(* and the SPI bus that the W5500 shares with the OLED and the SD card.    *)
(* SPIClass::begin, WiFiMulti, the Ethernet library, the access point, the *)
(* cable and the DHCP server are external.  What setup_wifi, wait_for_link *)
(* and setup_ethernet return only reaches the serial log and is left out.  *)
(* The module has the operations; Firmware calls them.                     *)
(***************************************************************************)
EXTENDS Integers

CONSTANTS
  ConnectAttempts,  \* CONNECT_ATTEMPTS
  LinkTimeout       \* ETH_LINK_TIMEOUT_MS, in ticks of millis()

ASSUME UplinkAssumption == ConnectAttempts \in Nat /\ LinkTimeout \in Nat \ {0}

VARIABLES
  net,               \* the access point is in reach, or the cable is in and DHCP answers
  CONNECT_ATTEMPTS,  \* a static counter
  wifi,              \* the station is connected
  start,             \* wait_for_link: when the wait began, 0 outside of it
  localIP,           \* the W5500 holds an address
  spi,               \* "off", "write": begun without MISO, "full"
  readers            \* history: the devices on the bus that have been read from
uplinkVars == << CONNECT_ATTEMPTS, wifi, start, localIP, spi, readers >>

UplinkInit ==
  /\ net \in BOOLEAN
  /\ CONNECT_ATTEMPTS = ConnectAttempts
  /\ wifi = FALSE
  /\ start = 0
  /\ localIP = FALSE
  /\ spi = "off"
  /\ readers = {}

NetChanges == net' = ~net

\* begin() does nothing once the bus is up.
SPI_begin(mode) == spi' = IF spi = "off" THEN mode ELSE spi

-----------------------------------------------------------------------------
(* setup_wifi: run() is called until it connects or the retries are used   *)
(* up.  It may fail with the access point in reach.                        *)

WifiConnects ==
  /\ net
  /\ wifi' = TRUE
  /\ UNCHANGED << CONNECT_ATTEMPTS, start, localIP, spi, readers >>

\* Mutant of WifiRetries: the retry is not counted.
WifiRetriesForever ==
  /\ CONNECT_ATTEMPTS > 0
  /\ UNCHANGED << CONNECT_ATTEMPTS, wifi, start, localIP, spi, readers >>

WifiRetries ==
  /\ CONNECT_ATTEMPTS > 0
  /\ CONNECT_ATTEMPTS' = CONNECT_ATTEMPTS - 1
  /\ UNCHANGED << wifi, start, localIP, spi, readers >>

WifiGivesUp ==
  /\ CONNECT_ATTEMPTS = 0
  /\ CONNECT_ATTEMPTS' = -1
  /\ UNCHANGED << wifi, start, localIP, spi, readers >>

-----------------------------------------------------------------------------
(* setup_ethernet.                                                         *)

ResetW5500(now) ==
  /\ SPI_begin("full")
  /\ readers' = readers \cup {"W5500"}
  /\ start' = now
  /\ UNCHANGED << CONNECT_ATTEMPTS, wifi, localIP >>

\* wait_for_link: elapsed is the time since start.
LinkFound(elapsed) ==
  /\ elapsed < LinkTimeout
  /\ net
  /\ start' = 0
  /\ UNCHANGED << CONNECT_ATTEMPTS, wifi, localIP, spi, readers >>

LinkMissing(elapsed) ==
  /\ elapsed < LinkTimeout
  /\ ~net
  /\ UNCHANGED uplinkVars

LinkTimesOut(elapsed) ==
  /\ elapsed >= LinkTimeout
  /\ start' = 0
  /\ UNCHANGED << CONNECT_ATTEMPTS, wifi, localIP, spi, readers >>

\* begin(): a static address is taken unless no W5500 answers; DHCP gives one
\* or fails.
GetsAddress(static) ==
  /\ localIP' \in { ip \in BOOLEAN : ip => static \/ net }
  /\ UNCHANGED << CONNECT_ATTEMPTS, wifi, start, spi, readers >>

\* maintain(): a lease that is held is kept or renewed (localIP() goes on giving
\* the address even when renewing fails); without one the library asks again, in
\* this call, and may get one.
loop_ethernet(static) ==
  /\ localIP' \in { ip \in BOOLEAN : (localIP => ip) /\ (ip => localIP \/ (net /\ ~static)) }
  /\ UNCHANGED << CONNECT_ATTEMPTS, wifi, start, spi, readers >>

\* setup_sd_card: begin() again, to add MISO.
setup_sd_card ==
  /\ SPI_begin("full")
  /\ readers' = readers \cup {"SD"}
  /\ UNCHANGED << CONNECT_ATTEMPTS, wifi, start, localIP >>

\* The addresses as the console is shown them.
get_wifi_ip == IF wifi /\ net THEN << "IP" >> ELSE << "Not Connected" >>

get_eth_ip == IF localIP THEN << "IP" >> ELSE << "No IP" >>
=============================================================================
